---------------------------- MODULE Spec2Model ----------------------------
(***************************************************************************)
(* A model of the recursive ray tracer of src/src/scene.rs and the linear  *)
(* algebra, hit lists and lighting it rests on.                            *)
(*                                                                         *)
(* Real numbers (the f64 of the source) are exact rationals <<n, d>> with  *)
(* d > 0 and gcd(|n|, d) = 1: the arithmetic is that of the source without *)
(* the rounding of IEEE floating point, and the approximate comparison     *)
(* is_approx keeps its epsilon of 1/100000.                                *)
(***************************************************************************)
EXTENDS Integers, Sequences, FiniteSets, TLC

VARIABLES
  \* A HitList, the operation that last produced or read it (with the scene
  \* and the ray of a Scene::intersect call), and closest_hit's answer for
  \* it (None until asked)
  hits, call, closest,
  \* LightingData::compute_refractivity: the sorted hits of a ray through the
  \* glass spheres, the index of the focal hit (0 before the call) and the
  \* pair [n1, n2] computed for it
  glass_hits, focal, refractivity,
  \* SceneNode: the node being built, the last call made on it, the result of
  \* the transform.invert() of its last with_transform, and the point that
  \* went through object_to_world and back through world_to_object
  node, node_call, inverted, probe,
  \* Scene: the scene being assembled (ambient colour, nodes, lights), the
  \* last call made on it and what that call returned
  world, world_call, world_result,
  \* Scene::trace: the scene being traced, the activations of trace_inner
  \* (each with the apply_lighting it is in), and the last return of
  \* trace_inner, and the work of the trace so far: the trace_inner calls made
  \* and the hits shaded (the apply_lighting calls)
  trace_scene, stack, returned, work,
  \* Scene::reflected_color and Scene::refracted_color called on their own:
  \* the call (the surface lit, the depth, the colour the recursive
  \* trace_inner gives back) and its result (the colour and the trace_inner
  \* calls made)
  shade_call, shade_result,
  \* A Shape or SceneNode asked for its intersections or its normal: the call
  \* and what it returned
  shape_call, shape_result,
  \* Camera::render: the camera, the scene, the canvas being written, the
  \* number of set_pixel calls each cell has received, and the position of
  \* the loop
  camera, render_scene, canvas, written, cursor,
  \* A function without state (phong_lighting, LightingData::calculate, the
  \* matrix product, PackedLight::build) called on its own: the call with
  \* its arguments, and what it returned
  pure_call, pure_result

hitVars == <<hits, call, closest>>
glassVars == <<glass_hits, focal, refractivity>>

nodeVars == <<node, node_call, inverted, probe>>

sceneVars == <<world, world_call, world_result>>
traceVars == <<trace_scene, stack, returned, work>>
shadeVars == <<shade_call, shade_result>>
shapeVars == <<shape_call, shape_result>>
renderVars == <<camera, render_scene, canvas, written, cursor>>
pureVars == <<pure_call, pure_result>>

vars ==
  << hits, call, closest, glass_hits, focal, refractivity,
     node, node_call, inverted, probe, world, world_call, world_result,
     trace_scene, stack, returned, work, shade_call, shade_result,
     shape_call, shape_result, camera, render_scene, canvas, written, cursor,
     pure_call, pure_result >>

\* What the operations on one component leave alone
hitRest == <<glassVars, nodeVars, sceneVars, traceVars, shadeVars, shapeVars, renderVars, pureVars>>
glassRest == <<hitVars, nodeVars, sceneVars, traceVars, shadeVars, shapeVars, renderVars, pureVars>>
nodeRest == <<hitVars, glassVars, sceneVars, traceVars, shadeVars, shapeVars, renderVars, pureVars>>
sceneRest == <<hitVars, glassVars, nodeVars, traceVars, shadeVars, shapeVars, renderVars, pureVars>>
traceRest == <<hitVars, glassVars, nodeVars, sceneVars, shadeVars, shapeVars, renderVars, pureVars>>
shadeRest == <<hitVars, glassVars, nodeVars, sceneVars, traceVars, shapeVars, renderVars, pureVars>>
shapeRest == <<hitVars, glassVars, nodeVars, sceneVars, traceVars, shadeVars, renderVars, pureVars>>
renderRest == <<hitVars, glassVars, nodeVars, sceneVars, traceVars, shadeVars, shapeVars, pureVars>>
pureRest == <<hitVars, glassVars, nodeVars, sceneVars, traceVars, shadeVars, shapeVars, renderVars>>

-----------------------------------------------------------------------------
(* Rational arithmetic standing for f64. An operator that reads an argument *)
(* more than once first binds it ({e : x \in {a}} evaluates a once), which  *)
(* keeps the cost of a nested expression linear in its size.               *)

Abs(x) == IF x < 0 THEN -x ELSE x

RECURSIVE GCD(_, _)
GCD(a, b) ==
  CHOOSE r \in { IF y = 0 THEN x ELSE GCD(y, x % y) : x \in {a}, y \in {b} } : TRUE

\* The rational n/d in lowest terms with a positive denominator.
Rat(n, d) ==
  CHOOSE r \in
    { LET s == IF y < 0 THEN -1 ELSE 1
      IN  CHOOSE q \in { <<(s * x) \div g, (s * y) \div g>> :
                         g \in {GCD(Abs(x), Abs(y))} } : TRUE
      : x \in {n}, y \in {d} } : TRUE

R(n) == <<n, 1>>
Zero == <<0, 1>>
One == <<1, 1>>
Two == <<2, 1>>
Half == Rat(1, 2)
Four == <<4, 1>>

\* f64 addition
RAdd(a, b) ==
  CHOOSE r \in
    { CHOOSE q \in { Rat(x[1] * (l \div x[2]) + y[1] * (l \div y[2]), l) :
                     l \in {(x[2] \div GCD(x[2], y[2])) * y[2]} } : TRUE
      : x \in {a}, y \in {b} } : TRUE

\* f64 negation
RNeg(a) == CHOOSE r \in { <<-x[1], x[2]>> : x \in {a} } : TRUE

\* f64 subtraction
RSub(a, b) == RAdd(a, RNeg(b))

\* f64 multiplication
RMul(a, b) ==
  CHOOSE r \in
    { CHOOSE q \in { Rat((x[1] \div g[1]) * (y[1] \div g[2]),
                         (x[2] \div g[2]) * (y[2] \div g[1])) :
                     g \in {<<GCD(Abs(x[1]), y[2]), GCD(Abs(y[1]), x[2])>>} } : TRUE
      : x \in {a}, y \in {b} } : TRUE

\* f64 division, by a divisor that is not 0
RDiv(a, b) == CHOOSE r \in { RMul(a, Rat(y[2], y[1])) : y \in {b} } : TRUE

RLt(a, b) == \E x \in {a}, y \in {b} : x[1] * y[2] < y[1] * x[2]
RLe(a, b) == \E x \in {a}, y \in {b} : x[1] * y[2] <= y[1] * x[2]
RAbs(a) == CHOOSE r \in { <<Abs(x[1]), x[2]>> : x \in {a} } : TRUE

\* The largest integer whose square is an integer of the model
MaxRoot == 46340

\* The least y in lo..hi with y * y >= n, by bisection
RECURSIVE ISqrtBetween(_, _, _)
ISqrtBetween(n, lo, hi) ==
  CHOOSE r \in
    { IF l >= h THEN l
      ELSE CHOOSE q \in
             { IF mid * mid >= x THEN ISqrtBetween(x, l, mid)
               ELSE ISqrtBetween(x, mid + 1, h)
               : mid \in {(l + h) \div 2} } : TRUE
      : x \in {n}, l \in {lo}, h \in {hi} } : TRUE

ISqrt(n) == ISqrtBetween(n, 0, MaxRoot)

IsSquare(n) == \E x \in {n} : x >= 0 /\ \E q \in {ISqrt(x)} : q * q = x

\* f64::sqrt, on the rationals whose root is rational
RSqrt(a) == CHOOSE r \in { <<ISqrt(x[1]), ISqrt(x[2])>> : x \in {a} } : TRUE
HasRSqrt(a) == \E x \in {a} : IsSquare(x[1]) /\ IsSquare(x[2])

EPSILON == <<1, 100000>>

\* ApproxEq::is_approx
IsApprox(a, b) == RLt(RAbs(RSub(a, b)), EPSILON)

-----------------------------------------------------------------------------
(* Vectors: Vector {x, y, z, w} of src/src/maths/vectors.rs.                *)

vec4(x, y, z, w) == <<x, y, z, w>>
point(x, y, z) == <<x, y, z, One>>
vec3(x, y, z) == <<x, y, z, Zero>>

VAdd(a, b) ==
  CHOOSE r \in { << RAdd(u[1], v[1]), RAdd(u[2], v[2]),
                    RAdd(u[3], v[3]), RAdd(u[4], v[4]) >> :
                 u \in {a}, v \in {b} } : TRUE

VNeg(a) ==
  CHOOSE r \in { << RNeg(u[1]), RNeg(u[2]), RNeg(u[3]), RNeg(u[4]) >> :
                 u \in {a} } : TRUE

VSub(a, b) == VAdd(a, VNeg(b))

VScale(a, k) ==
  CHOOSE r \in { << RMul(u[1], c), RMul(u[2], c), RMul(u[3], c), RMul(u[4], c) >> :
                 u \in {a}, c \in {k} } : TRUE

dot(a, b) ==
  CHOOSE r \in { RAdd(RAdd(RMul(u[1], v[1]), RMul(u[2], v[2])),
                      RAdd(RMul(u[3], v[3]), RMul(u[4], v[4]))) :
                 u \in {a}, v \in {b} } : TRUE

\* PartialEq for Vector: approximate, component by component.
VecEq(a, b) == \E u \in {a}, v \in {b} : \A i \in 1..4 : IsApprox(u[i], v[i])

\* Vector::magnitude, over all four components
magnitude(a) == RSqrt(dot(a, a))

\* The magnitude of the vector is rational: no component is too large to be
\* squared and the sum of the squares is a square.
HasMagnitude(a) ==
  \E u \in {a} :
    /\ \A i \in 1..4 : Abs(u[i][1]) <= MaxRoot /\ u[i][2] <= MaxRoot
    /\ HasRSqrt(dot(u, u))

\* The vector normalizes to a rational vector: its magnitude is rational
\* and not 0 (normalizing the zero vector gives NaN components).
CanNormalize(a) == \E u \in {a} : HasMagnitude(u) /\ dot(u, u) # Zero

\* Vector::normalize
normalize(a) ==
  CHOOSE r \in { << RDiv(u[1], m), RDiv(u[2], m), RDiv(u[3], m), RDiv(u[4], m) >> :
                 u \in {a}, m \in {magnitude(a)} } : TRUE

\* Vector::reflect: self - normal * 2. * self.dot(normal)
reflect(a, normal) ==
  CHOOSE r \in { VSub(u, VScale(VScale(n, Two), dot(u, n))) :
                 u \in {a}, n \in {normal} } : TRUE

-----------------------------------------------------------------------------
(* Colours: Color {r, g, b} of src/src/maths/colors.rs.                     *)

rgb(r, g, b) == <<r, g, b>>
BLACK == rgb(Zero, Zero, Zero)
RED == rgb(One, Zero, Zero)
WHITE == rgb(One, One, One)

\* impl Add for Color
CAdd(a, b) ==
  CHOOSE r \in { << RAdd(u[1], v[1]), RAdd(u[2], v[2]), RAdd(u[3], v[3]) >> :
                 u \in {a}, v \in {b} } : TRUE

\* impl Mul for Color
CMul(a, b) ==
  CHOOSE r \in { << RMul(u[1], v[1]), RMul(u[2], v[2]), RMul(u[3], v[3]) >> :
                 u \in {a}, v \in {b} } : TRUE

\* impl Mul<f64> for Color
CScale(a, k) ==
  CHOOSE r \in { << RMul(u[1], c), RMul(u[2], c), RMul(u[3], c) >> :
                 u \in {a}, c \in {k} } : TRUE

\* PartialEq for Color: approximate, channel by channel.
ColorEq(a, b) == \E u \in {a}, v \in {b} : \A i \in 1..3 : IsApprox(u[i], v[i])

-----------------------------------------------------------------------------
(* Matrices: Matrix<S, L> of src/src/maths/matrices.rs, a sequence of S*S   *)
(* elements; element (row, column), both from 0, is at column + row * S.    *)

At(m, S, row, column) == m[column + row * S + 1]

identity ==
  << One, Zero, Zero, Zero,
     Zero, One, Zero, Zero,
     Zero, Zero, One, Zero,
     Zero, Zero, Zero, One >>

translate(x, y, z) ==
  << One, Zero, Zero, x,
     Zero, One, Zero, y,
     Zero, Zero, One, z,
     Zero, Zero, Zero, One >>

scale(x, y, z) ==
  << x, Zero, Zero, Zero,
     Zero, y, Zero, Zero,
     Zero, Zero, z, Zero,
     Zero, Zero, Zero, One >>

shear(x1, x2, y1, y2, z1, z2) ==
  << One, x1, x2, Zero,
     y1, One, y2, Zero,
     z1, z2, One, Zero,
     Zero, Zero, Zero, One >>

\* Matrix::transpose, of a 4x4 matrix
transpose(m) ==
  CHOOSE r \in { SubSeq([k \in 1..16 |-> At(x, 4, (k - 1) % 4, (k - 1) \div 4)], 1, 16) :
                 x \in {m} } : TRUE

\* A product that sums self[(i, row)] * rhs[(i, column)]
MatMulByColumns(a, b) ==
  CHOOSE r \in
    { SubSeq([k \in 1..16 |->
                RAdd(RAdd(RMul(At(x, 4, 0, (k - 1) \div 4), At(y, 4, 0, (k - 1) % 4)),
                          RMul(At(x, 4, 1, (k - 1) \div 4), At(y, 4, 1, (k - 1) % 4))),
                     RAdd(RMul(At(x, 4, 2, (k - 1) \div 4), At(y, 4, 2, (k - 1) % 4)),
                          RMul(At(x, 4, 3, (k - 1) \div 4), At(y, 4, 3, (k - 1) % 4))))],
             1, 16)
      : x \in {a}, y \in {b} } : TRUE

\* impl Mul for Matrix (4x4)
MatMul(a, b) ==
  CHOOSE r \in
    { SubSeq([k \in 1..16 |->
                RAdd(RAdd(RMul(At(x, 4, (k - 1) \div 4, 0), At(y, 4, 0, (k - 1) % 4)),
                          RMul(At(x, 4, (k - 1) \div 4, 1), At(y, 4, 1, (k - 1) % 4))),
                     RAdd(RMul(At(x, 4, (k - 1) \div 4, 2), At(y, 4, 2, (k - 1) % 4)),
                          RMul(At(x, 4, (k - 1) \div 4, 3), At(y, 4, 3, (k - 1) % 4))))],
             1, 16)
      : x \in {a}, y \in {b} } : TRUE

\* impl Mul<Vector> for Matrix4x4
MatVec(m, v) ==
  CHOOSE r \in
    { SubSeq([i \in 1..4 |->
                RAdd(RAdd(RMul(At(x, 4, i - 1, 0), u[1]), RMul(At(x, 4, i - 1, 1), u[2])),
                     RAdd(RMul(At(x, 4, i - 1, 2), u[3]), RMul(At(x, 4, i - 1, 3), u[4])))],
             1, 4)
      : x \in {m}, u \in {v} } : TRUE

\* to_sub_matrix: the matrix of stride S without `row` and `column`.
SubMatrix(m, S, row, column) ==
  CHOOSE r \in
    { SubSeq([k \in 1..((S - 1) * (S - 1)) |->
                At(x, S,
                   IF (k - 1) \div (S - 1) < row THEN (k - 1) \div (S - 1)
                   ELSE ((k - 1) \div (S - 1)) + 1,
                   IF (k - 1) % (S - 1) < column THEN (k - 1) % (S - 1)
                   ELSE ((k - 1) % (S - 1)) + 1)],
             1, (S - 1) * (S - 1))
      : x \in {m} } : TRUE

\* Matrix2x2::determinant
Determinant2(m) ==
  CHOOSE r \in { RSub(RMul(x[1], x[4]), RMul(x[2], x[3])) : x \in {m} } : TRUE

Minor3(m, row, column) == Determinant2(SubMatrix(m, 3, row, column))

Cofactor3(m, row, column) ==
  IF (row + column) % 2 = 0 THEN Minor3(m, row, column)
  ELSE RNeg(Minor3(m, row, column))

\* Matrix3x3::determinant
Determinant3(m) ==
  CHOOSE r \in
    { RAdd(RAdd(RMul(At(x, 3, 0, 0), Cofactor3(x, 0, 0)),
                RMul(At(x, 3, 0, 1), Cofactor3(x, 0, 1))),
           RMul(At(x, 3, 0, 2), Cofactor3(x, 0, 2)))
      : x \in {m} } : TRUE

Minor4(m, row, column) == Determinant3(SubMatrix(m, 4, row, column))

Cofactor4(m, row, column) ==
  IF (row + column) % 2 = 0 THEN Minor4(m, row, column)
  ELSE RNeg(Minor4(m, row, column))

\* Matrix4x4::determinant
Determinant(m) ==
  CHOOSE r \in
    { RAdd(RAdd(RMul(At(x, 4, 0, 0), Cofactor4(x, 0, 0)),
                RMul(At(x, 4, 0, 1), Cofactor4(x, 0, 1))),
           RAdd(RMul(At(x, 4, 0, 2), Cofactor4(x, 0, 2)),
                RMul(At(x, 4, 0, 3), Cofactor4(x, 0, 3))))
      : x \in {m} } : TRUE

\* Result<Matrix4x4>
Err == [ok |-> FALSE, value |-> <<>>]
Ok(value) == [ok |-> TRUE, value |-> value]

\* Matrix4x4::invert: Err exactly when the determinant is 0, otherwise Ok
\* of the transposed cofactors over the determinant.
invert(m) ==
  CHOOSE r \in
    { IF determinant = Zero
      THEN Err
      ELSE Ok(SubSeq([k \in 1..16 |->
                        RDiv(Cofactor4(x, (k - 1) % 4, (k - 1) \div 4), determinant)],
                     1, 16))
      : x \in {m}, determinant \in {Determinant(m)} } : TRUE

\* Result::unwrap_or
unwrap_or(result, default) ==
  CHOOSE r \in { IF x.ok THEN x.value ELSE default : x \in {result} } : TRUE

-----------------------------------------------------------------------------
(* Materials, shapes and scene nodes.                                      *)

\* Material::default (src/src/scene/materials.rs), with a solid texture.
DefaultMaterial ==
  [ color |-> WHITE,
    ambient |-> Rat(1, 10), diffuse |-> Rat(9, 10), specular |-> Rat(9, 10),
    shininess |-> 200,
    reflectivity |-> Zero, transparency |-> Zero, refractivity |-> One ]

\* A ray: Ray {origin, direction}
Ray(origin, direction) == [origin |-> origin, direction |-> direction]

\* Ray::position
position(r, distance) ==
  CHOOSE p \in { VAdd(o.origin, VScale(o.direction, distance)) : o \in {r} } : TRUE

\* impl Mul<Ray> for Matrix4x4
MatRay(m, r) ==
  CHOOSE p \in { Ray(MatVec(x, o.origin), MatVec(x, o.direction)) :
                 x \in {m}, o \in {r} } : TRUE

\* The coefficients a, b, c of the quadratic of Sphere::intersect and its
\* discriminant
SphereQuadratic(object_ray) ==
  CHOOSE r \in
    { CHOOSE q \in
        { [a |-> a, b |-> b, c |-> c,
           discriminant |-> RSub(RMul(b, b), RMul(RMul(Four, a), c))] :
          a \in {dot(o.direction, o.direction)},
          b \in {RMul(Two, dot(sphere_to_ray, o.direction))},
          c \in {RSub(dot(sphere_to_ray, sphere_to_ray), One)} } : TRUE
      : o \in {object_ray},
        sphere_to_ray \in {VSub(object_ray.origin, point(Zero, Zero, Zero))} } : TRUE

\* Sphere::intersect keeping only the roots in front of the ray
SphereIntersectInFront(object_ray) ==
  CHOOSE r \in
    { IF RLe(Zero, q.discriminant)
      THEN SelectSeq(<< RDiv(RSub(RNeg(q.b), RSqrt(q.discriminant)), RMul(Two, q.a)),
                        RDiv(RAdd(RNeg(q.b), RSqrt(q.discriminant)), RMul(Two, q.a)) >>,
                     LAMBDA t : RLe(Zero, t))
      ELSE <<>>
      : q \in {SphereQuadratic(object_ray)} } : TRUE

\* Sphere::intersect: the two roots of the quadratic, lower first, or none.
SphereIntersect(object_ray) ==
  CHOOSE r \in
    { IF RLe(Zero, q.discriminant)
      THEN << RDiv(RSub(RNeg(q.b), RSqrt(q.discriminant)), RMul(Two, q.a)),
              RDiv(RAdd(RNeg(q.b), RSqrt(q.discriminant)), RMul(Two, q.a)) >>
      ELSE <<>>
      : q \in {SphereQuadratic(object_ray)} } : TRUE

\* The roots of Sphere::intersect are rational: the direction is not zero
\* and the discriminant is negative or a square.
SphereExact(object_ray) ==
  \E q \in {SphereQuadratic(object_ray)} :
    q.a # Zero /\ (RLt(q.discriminant, Zero) \/ HasRSqrt(q.discriminant))

\* Plane::intersect comparing direction.y itself, not its absolute value
PlaneIntersectSigned(object_ray) ==
  CHOOSE r \in
    { IF RLt(o.direction[2], EPSILON)
      THEN <<>>
      ELSE << RDiv(RNeg(o.origin[2]), o.direction[2]) >>
      : o \in {object_ray} } : TRUE

\* Plane::intersect
PlaneIntersect(object_ray) ==
  CHOOSE r \in
    { IF RLt(RAbs(o.direction[2]), EPSILON)
      THEN <<>>
      ELSE << RDiv(RNeg(o.origin[2]), o.direction[2]) >>
      : o \in {object_ray} } : TRUE

\* Shape::intersect, dispatched on the shape of the node
ShapeIntersect(shape, object_ray) ==
  IF shape = "Sphere" THEN SphereIntersect(object_ray)
  ELSE PlaneIntersect(object_ray)

\* SceneNode::new
NewNode(shape) ==
  [ object |-> shape, material |-> DefaultMaterial,
    transform |-> identity, inverse_transform |-> identity ]

\* A with_transform that keeps the inverse it had
with_transform_stale_inverse(self, transform) ==
  [self EXCEPT !.transform = transform]

\* SceneNode::with_transform: the inverse is computed once, and is the
\* identity when the transform cannot be inverted.
with_transform(self, transform) ==
  CHOOSE r \in
    { [self EXCEPT !.transform = t,
                   !.inverse_transform = unwrap_or(invert(t), identity)]
      : t \in {transform} } : TRUE

\* SceneNode::with_material
with_material(self, material) == [self EXCEPT !.material = material]

\* SceneNode::world_to_object
world_to_object(self, world_point) == MatVec(self.inverse_transform, world_point)

\* SceneNode::object_to_world
object_to_world(self, object_point) == MatVec(self.transform, object_point)

-----------------------------------------------------------------------------
(* Hit and HitList (src/src/scene.rs). A Hit's object is a reference: here *)
(* the index of the node in the scene (or the name of a free-standing      *)
(* node).                                                                  *)

Hit(object, distance) == [object |-> object, distance |-> distance]

\* Option<Hit>
None == [some |-> FALSE, object |-> 0, distance |-> Zero]
Some(h) == [some |-> TRUE, object |-> h.object, distance |-> h.distance]

\* HitList::push
push(list, object, distance) == Append(list, Hit(object, distance))

\* HitList::append
append(list, other) == list \o other

\* The loop of HitList::closest_hit over the first k hits: closest_t starts
\* at f64::MAX ("MAX": above every distance) and closest_object at None.
RECURSIVE ClosestScan(_, _)
ClosestScan(list, k) ==
  IF k = 0 THEN [closest_t |-> "MAX", closest_object |-> 0, found |-> FALSE]
  ELSE CHOOSE r \in
         { IF RLt(Zero, hit.distance)
              /\ (acc.closest_t = "MAX" \/ RLt(hit.distance, acc.closest_t))
           THEN [closest_t |-> hit.distance, closest_object |-> hit.object,
                 found |-> TRUE]
           ELSE acc
           : acc \in {ClosestScan(list, k - 1)}, hit \in {list[k]} } : TRUE

\* closest_hit accepting a distance of 0 and keeping the first hit it accepts
closest_hit_first_nonnegative(list) ==
  IF \E k \in 1..Len(list) : RLe(Zero, list[k].distance)
  THEN Some(list[CHOOSE k \in 1..Len(list) :
                   /\ RLe(Zero, list[k].distance)
                   /\ \A j \in 1..(k - 1) : RLt(list[j].distance, Zero)])
  ELSE None

\* HitList::closest_hit
closest_hit(list) ==
  CHOOSE r \in
    { IF acc.found THEN Some(Hit(acc.closest_object, acc.closest_t)) ELSE None
      : acc \in {ClosestScan(list, Len(list))} } : TRUE

\* SceneNode::intersect: the node `id` of the scene against a world ray.
NodeIntersect(self, id, world_ray) ==
  CHOOSE r \in
    { SubSeq([k \in 1..Len(distances) |-> Hit(id, distances[k])],
             1, Len(distances))
      : distances \in
          {ShapeIntersect(self.object, MatRay(self.inverse_transform, world_ray))}
    } : TRUE

\* Insertion of a hit into a list sorted by distance, after every hit that is
\* not farther (a stable sort).
RECURSIVE InsertSorted(_, _)
InsertSorted(sorted, h) ==
  CHOOSE r \in
    { IF list = <<>> THEN <<hit>>
      ELSE IF RLt(hit.distance, list[Len(list)].distance)
           THEN Append(InsertSorted(SubSeq(list, 1, Len(list) - 1), hit),
                       list[Len(list)])
           ELSE Append(list, hit)
      : list \in {sorted}, hit \in {h} } : TRUE

\* a sort that leaves the list as it is
sort_by_nothing(list) == list

\* slice::sort_by on the distance
RECURSIVE sort_by_distance(_)
sort_by_distance(list) ==
  CHOOSE r \in
    { IF l = <<>> THEN <<>>
      ELSE InsertSorted(sort_by_distance(SubSeq(l, 1, Len(l) - 1)), l[Len(l)])
      : l \in {list} } : TRUE

\* the loop assigning each node's hits to the results instead of appending
AssignAll(nodes, k, world_ray) ==
  IF k = 0 THEN <<>> ELSE NodeIntersect(nodes[k], k, world_ray)

\* The loop of Scene::intersect over the first k nodes
RECURSIVE AppendAll(_, _, _)
AppendAll(nodes, k, world_ray) ==
  IF k = 0 THEN <<>>
  ELSE append(AppendAll(nodes, k - 1, world_ray),
              NodeIntersect(nodes[k], k, world_ray))

\* Scene::intersect
SceneIntersect(nodes, world_ray) ==
  sort_by_distance(AppendAll(nodes, Len(nodes), world_ray))

-----------------------------------------------------------------------------
(* LightingData::compute_refractivity (src/src/scene/lighting.rs).         *)

\* create_glass_sphere of the tests of lighting.rs
create_glass_sphere(refractivity_) ==
  with_material(NewNode("Sphere"),
                [DefaultMaterial EXCEPT !.transparency = One,
                                        !.refractivity = refractivity_])

\* The nested spheres a, b, c of
\* calculate_lighting_data_finds_refractive_indices_at_various_intersections
GlassSpheres ==
  << create_glass_sphere(Rat(3, 2)),
     create_glass_sphere(Two),
     create_glass_sphere(Rat(5, 2)) >>

\* impl PartialEq for Hit: the same object at approximately the same distance
HitEq(a, b) ==
  \E x \in {a}, y \in {b} : IsApprox(x.distance, y.distance) /\ x.object = y.object

\* containers.last().map(|it| it.object.material().refractivity).unwrap_or(1.)
LastRefractivity(containers, nodes) ==
  CHOOSE r \in
    { IF c = <<>> THEN One ELSE nodes[c[Len(c)].object].material.refractivity
      : c \in {containers} } : TRUE

\* Vec::retain(|it| *it != i)
RECURSIVE Retain(_, _)
Retain(containers, i) ==
  CHOOSE r \in
    { IF c = <<>> THEN <<>>
      ELSE IF HitEq(c[Len(c)], i)
           THEN Retain(SubSeq(c, 1, Len(c) - 1), i)
           ELSE Append(Retain(SubSeq(c, 1, Len(c) - 1), i), c[Len(c)])
      : c \in {containers} } : TRUE

\* One iteration of the loop of compute_refractivity, on the hit i
RefractStep(acc, i, hit, nodes) ==
  CHOOSE r \in
    { IF a.done THEN a
      ELSE CHOOSE q \in
             { [ n1 |-> IF HitEq(i, hit) THEN LastRefractivity(a.containers, nodes) ELSE a.n1,
                 containers |-> after,
                 n2 |-> IF HitEq(i, hit) THEN LastRefractivity(after, nodes) ELSE a.n2,
                 done |-> HitEq(i, hit) ]
               : after \in
                   { IF \E k \in 1..Len(a.containers) : HitEq(a.containers[k], i)
                     THEN Retain(a.containers, i)
                     ELSE Append(a.containers, i) } } : TRUE
      : a \in {acc} } : TRUE

\* The loop of compute_refractivity over the first k hits: n1 and n2 start
\* at 0 and the scan ends at the focal hit.
RECURSIVE RefractScan(_, _, _, _)
RefractScan(list, hit, k, nodes) ==
  IF k = 0 THEN [n1 |-> Zero, n2 |-> Zero, containers |-> <<>>, done |-> FALSE]
  ELSE RefractStep(RefractScan(list, hit, k - 1, nodes), list[k], hit, nodes)

\* LightingData::compute_refractivity
compute_refractivity(hit, list, nodes) ==
  CHOOSE r \in
    { <<a.n1, a.n2>> : a \in {RefractScan(list, hit, Len(list), nodes)} } : TRUE

-----------------------------------------------------------------------------
(* Normals, LightingData::calculate and phong_lighting.                    *)

\* Sphere::normal_at: the point it is given is already in object space, and
\* it applies the inverse transform to it once more.
SphereNormalBeforeNormalize(world_point, inverse_transform) ==
  CHOOSE r \in
    { [world_normal EXCEPT ![4] = Zero]
      : world_normal \in
          { MatVec(transpose(inverse_transform),
                   VSub(MatVec(inverse_transform, world_point),
                        point(Zero, Zero, Zero))) } } : TRUE

SphereNormalAt(world_point, inverse_transform) ==
  normalize(SphereNormalBeforeNormalize(world_point, inverse_transform))

\* Plane::normal_at: the normal the plane was made with, (0, 1, 0).
PlaneNormalAt(object_point, inverse_transform) == vec3(Zero, One, Zero)

\* SceneNode::normal_at
normal_at(self, world_point) ==
  CHOOSE r \in
    { IF self.object = "Sphere"
      THEN SphereNormalAt(object_point, self.inverse_transform)
      ELSE PlaneNormalAt(object_point, self.inverse_transform)
      : object_point \in {MatVec(self.inverse_transform, world_point)} } : TRUE

\* The normal of the node at the point is rational.
NormalExact(self, world_point) ==
  self.object = "Sphere" =>
    CanNormalize(SphereNormalBeforeNormalize(
                   MatVec(self.inverse_transform, world_point),
                   self.inverse_transform))

\* The offset of over_position and under_position from the surface
SurfaceOffset == Rat(1, 10000)

\* LightingData::calculate: over_position, under_position, object_position
\* and reflect_direction use the normal as the object reports it; the normal
\* kept is turned towards the eye.
calculate(ray, hit, list, nodes) ==
  CHOOSE r \in
    { [ object |-> hit.object,
        world_position |-> world_position,
        over_position |-> VAdd(world_position, VScale(normal, SurfaceOffset)),
        under_position |-> VSub(world_position, VScale(normal, SurfaceOffset)),
        object_position |->
          world_to_object(nodes[hit.object],
                          VAdd(world_position, VScale(normal, SurfaceOffset))),
        eye |-> eye,
        normal |-> IF RLt(dot(normal, eye), Zero) THEN VNeg(normal) ELSE normal,
        reflect_direction |-> reflect(ray.direction, normal),
        distance |-> hit.distance,
        inside |-> RLt(dot(normal, eye), Zero),
        refractivity |-> compute_refractivity(hit, list, nodes) ]
      : world_position \in {position(ray, hit.distance)},
        eye \in {VNeg(ray.direction)},
        normal \in {normal_at(nodes[hit.object], position(ray, hit.distance))}
    } : TRUE

\* PointLight::new
PointLight(position_, intensity) == [position |-> position_, intensity |-> intensity]

\* f64::powf for an exponent that is a natural number
RECURSIVE Powf(_, _)
Powf(x, n) ==
  CHOOSE r \in
    { IF k = 0 \/ b = One THEN One
      ELSE IF b = Zero THEN Zero
      ELSE RMul(b, Powf(b, k - 1))
      : b \in {x}, k \in {n} } : TRUE

\* The diffuse and specular contributions of phong_lighting, both black
\* when the light is on the other side of the surface.
PhongDiffuseSpecular(light, material, light_direction, eye, normal) ==
  CHOOSE r \in
    { IF RLe(Zero, light_dot_normal)
      THEN CHOOSE q \in
             { [ diffuse |->
                   CScale(CScale(CMul(material.color, light.intensity),
                                 material.diffuse), light_dot_normal),
                 specular |->
                   IF RLe(Zero, reflect_dot_eye)
                   THEN CScale(CScale(light.intensity, material.specular),
                               Powf(reflect_dot_eye, material.shininess))
                   ELSE BLACK ]
               : reflect_dot_eye \in
                   {dot(VNeg(reflect(light_direction, normal)), eye)} } : TRUE
      ELSE [diffuse |-> BLACK, specular |-> BLACK]
      : light_dot_normal \in {dot(light_direction, normal)} } : TRUE

\* phong_lighting adding the diffuse and specular terms in shadow too
phong_lighting_unshadowed(light, material, world_position, object_position, eye, normal, in_shadow) ==
  CHOOSE r \in
    { CAdd(CAdd(ambient, ds.diffuse), ds.specular)
      : ambient \in
          {CScale(CMul(material.color, light.intensity), material.ambient)},
        ds \in
          {PhongDiffuseSpecular(light, material,
                                normalize(VSub(light.position, world_position)),
                                eye, normal)} } : TRUE

\* phong_lighting, for a material with a solid texture
phong_lighting(light, material, world_position, object_position, eye, normal, in_shadow) ==
  CHOOSE r \in
    { IF in_shadow THEN ambient
      ELSE CAdd(CAdd(ambient, ds.diffuse), ds.specular)
      : ambient \in
          {CScale(CMul(material.color, light.intensity), material.ambient)},
        ds \in
          {PhongDiffuseSpecular(light, material,
                                normalize(VSub(light.position, world_position)),
                                eye, normal)} } : TRUE

\* One turn of the loop of Scene::is_shadowed: something is hit, in front of
\* the point, nearer than the light.
LightOccluded(nodes, light, point_) ==
  CHOOSE r \in
    { CHOOSE q \in
        { h.some /\ RLt(h.distance, magnitude(light_vector))
          : h \in {closest_hit(SceneIntersect(nodes,
                                              Ray(point_, normalize(light_vector))))}
        } : TRUE
      : light_vector \in {VSub(light.position, point_)} } : TRUE

\* Scene::is_shadowed: true as soon as one light of the scene is occluded
is_shadowed(nodes, lights, point_) ==
  \E k \in 1..Len(lights) : LightOccluded(nodes, lights[k], point_)

\* The loop of Scene::apply_lighting over the first k lights, from the
\* ambient colour, with the one in_shadow it computed before the loop.
RECURSIVE SurfaceLighting(_, _, _, _, _, _)
SurfaceLighting(ambient_color, lights, k, material, lighting_data, in_shadow) ==
  IF k = 0 THEN ambient_color
  ELSE CAdd(SurfaceLighting(ambient_color, lights, k - 1, material,
                            lighting_data, in_shadow),
            phong_lighting(lights[k], material,
                           lighting_data.over_position,
                           lighting_data.object_position,
                           lighting_data.eye, lighting_data.normal, in_shadow))

-----------------------------------------------------------------------------
(* Scene::apply_lighting and what it calls (src/src/scene.rs).             *)

MAX_DEPTH == 5

\* Scene::new
NewScene == [ambient_color |-> BLACK, nodes |-> <<>>, lights |-> <<>>]

\* Scene::apply_lighting, its first part: the ambient colour plus the phong
\* lighting of every light, all with the in_shadow of one is_shadowed call.
DirectLighting(s, lighting_data) ==
  CHOOSE r \in
    { SurfaceLighting(s.ambient_color, s.lights, Len(s.lights),
                      s.nodes[ld.object].material, ld,
                      is_shadowed(s.nodes, s.lights, ld.over_position))
      : ld \in {lighting_data} } : TRUE

ReflectedIsBlackExact(material) == material.reflectivity = Zero

\* Scene::reflected_color returns black without tracing
ReflectedIsBlack(material) == IsApprox(material.reflectivity, Zero)

\* sin_t2 of Scene::refracted_color and Scene::shlick, for the ratio n
SinT2(n, cos) ==
  CHOOSE r \in { RMul(RMul(a, a), RSub(One, RMul(c, c))) : a \in {n}, c \in {cos} } : TRUE

RefractedIsBlackAtNoDepth(lighting_data, material, depth) ==
  \/ IsApprox(material.transparency, Zero)
  \/ RLt(One, SinT2(RDiv(lighting_data.refractivity[1], lighting_data.refractivity[2]),
                    dot(lighting_data.eye, lighting_data.normal)))

\* Scene::refracted_color returns black without tracing: the depth is used
\* up, the material is opaque, or the reflection is total.
RefractedIsBlack(lighting_data, material, depth) ==
  \/ depth >= MAX_DEPTH
  \/ IsApprox(material.transparency, Zero)
  \/ RLt(One, SinT2(RDiv(lighting_data.refractivity[1], lighting_data.refractivity[2]),
                    dot(lighting_data.eye, lighting_data.normal)))

\* The direction of the ray Scene::refracted_color traces
RefractedDirection(lighting_data) ==
  CHOOSE r \in
    { CHOOSE q \in
        { VSub(VScale(ld.normal, RSub(RAdd(n_ratio, cos_i), cos_t)),
               VScale(ld.eye, n_ratio))
          : cos_t \in {RSqrt(RSub(One, SinT2(n_ratio, cos_i)))} } : TRUE
      : ld \in {lighting_data},
        n_ratio \in {RDiv(lighting_data.refractivity[1], lighting_data.refractivity[2])},
        cos_i \in {dot(lighting_data.eye, lighting_data.normal)} } : TRUE

\* f64::powi(5)
Powi5(x) == Powf(x, 5)

\* Scene::shlick
shlick(lighting_data) ==
  CHOOSE r \in
    { IF RLt(n2, n1) /\ RLt(One, SinT2(RDiv(n1, n2), cos_i))
      THEN One
      ELSE CHOOSE q \in
             { RAdd(r02, RMul(RSub(One, r02), Powi5(RSub(One, cos))))
               : cos \in { IF RLt(n2, n1)
                           THEN RSqrt(RSub(One, SinT2(RDiv(n1, n2), cos_i)))
                           ELSE cos_i },
                 r02 \in { RMul(RDiv(RSub(n1, n2), RAdd(n1, n2)),
                                RDiv(RSub(n1, n2), RAdd(n1, n2))) } } : TRUE
      : n1 \in {lighting_data.refractivity[1]},
        n2 \in {lighting_data.refractivity[2]},
        cos_i \in {dot(lighting_data.eye, lighting_data.normal)} } : TRUE

\* A combination that takes the Schlick blend for every transparent material
CombineBlendWhenTransparent(material, lighting_data, surface, reflected, refracted) ==
  IF RLt(Zero, material.transparency)
  THEN CHOOSE r \in
         { CAdd(CAdd(surface, CScale(reflected, reflectance)),
                CScale(refracted, RSub(One, reflectance)))
           : reflectance \in {shlick(lighting_data)} } : TRUE
  ELSE CAdd(CAdd(surface, reflected), refracted)

\* Scene::apply_lighting, its last part: the surface, reflected and
\* refracted colours combined.
Combine(material, lighting_data, surface, reflected, refracted) ==
  IF RLt(Zero, material.reflectivity) /\ RLt(Zero, material.transparency)
  THEN CHOOSE r \in
         { CAdd(CAdd(surface, CScale(reflected, reflectance)),
                CScale(refracted, RSub(One, reflectance)))
           : reflectance \in {shlick(lighting_data)} } : TRUE
  ELSE CAdd(CAdd(surface, reflected), refracted)

\* The hit Scene::trace_inner lights for the ray, if any
TracedHit(s, ray) == closest_hit(SceneIntersect(s.nodes, ray))

\* trace_inner returning black, not the ambient colour, for a ray that meets
\* nothing
TraceOpaqueBlackOnMiss(s, ray) ==
  CHOOSE r \in
    { IF h.some
      THEN CHOOSE q \in
             { Combine(s.nodes[h.object].material, ld,
                       DirectLighting(s, ld), BLACK, BLACK)
               : ld \in {calculate(ray, Hit(h.object, h.distance), list, s.nodes)}
             } : TRUE
      ELSE BLACK
      : list \in {SceneIntersect(s.nodes, ray)},
        h \in {TracedHit(s, ray)} } : TRUE

\* Scene::trace_inner at a depth below MAX_DEPTH, on a ray that meets no
\* reflective and no transparent material: reflected_color and
\* refracted_color return black without tracing.
TraceOpaque(s, ray) ==
  CHOOSE r \in
    { IF h.some
      THEN CHOOSE q \in
             { Combine(s.nodes[h.object].material, ld,
                       DirectLighting(s, ld), BLACK, BLACK)
               : ld \in {calculate(ray, Hit(h.object, h.distance), list, s.nodes)}
             } : TRUE
      ELSE s.ambient_color
      : list \in {SceneIntersect(s.nodes, ray)},
        h \in {TracedHit(s, ray)} } : TRUE

\* The distances of the hits of the test, on the ray (0,0,-4) -> (0,0,1)
GlassDistances ==
  { Two, Rat(11, 4), Rat(13, 4), Rat(19, 4), Rat(21, 4), R(6) }

Call(op, scene, r) == [op |-> op, scene |-> scene, ray |-> r]

HitListIdle ==
  /\ hits = <<>>
  /\ call = Call("new", 0, 0)
  /\ closest = None

GlassIdle ==
  /\ glass_hits = <<>>
  /\ focal = 0
  /\ refractivity = <<Zero, Zero>>

\* No point has gone through the node as it is now
NoProbe == [sent |-> point(Zero, Zero, Zero), back |-> point(Zero, Zero, Zero)]

NodeIdle ==
  /\ node = NewNode("Sphere")
  /\ node_call = "new"
  /\ inverted = Err
  /\ probe = NoProbe

NoResult == [color |-> BLACK, in_shadow |-> FALSE]

SceneIdle ==
  /\ world = NewScene
  /\ world_call = [op |-> "new", ray |-> 0, point |-> 0]
  /\ world_result = NoResult

\* No trace_inner has returned yet
NoReturn == [some |-> FALSE, depth |-> 0, color |-> BLACK]

\* A scene for Scene::trace: its ambient colour and lights, and for each
\* kind of ray the surface that ray meets in it (0: none).
TraceScene(ambient_color, lights, primary, reflected, refracted) ==
  [ ambient_color |-> ambient_color, lights |-> lights,
    meets |-> [primary |-> primary, reflected |-> reflected,
               refracted |-> refracted] ]

TraceIdle ==
  /\ trace_scene = TraceScene(BLACK, <<>>, 0, 0, 0)
  /\ stack = <<>>
  /\ returned = NoReturn
  /\ work = [calls |-> 0, shaded |-> 0]

\* No reflected_color or refracted_color has been called
ShadeIdle ==
  /\ shade_call = [op |-> "none", surface |-> 0, depth |-> 0, traced |-> BLACK]
  /\ shade_result = [color |-> BLACK, calls |-> <<>>]

\* No shape has been asked anything
ShapeIdle ==
  /\ shape_call = [op |-> "none", subject |-> 0, input |-> 0]
  /\ shape_result = [panic |-> FALSE, distances |-> <<>>]

\* No render has started: Canvas::new has not run
RenderIdle ==
  /\ camera = [width |-> 0, height |-> 0]
  /\ render_scene = NewScene
  /\ canvas = [width |-> 0, height |-> 0, pixels |-> <<>>]
  /\ written = <<>>
  /\ cursor = [state |-> "idle", x |-> 0, y |-> 0]

\* No function has been called on its own
PureIdle ==
  /\ pure_call = [op |-> "none"]
  /\ pure_result = [op |-> "none"]

OthersIdle == ShadeIdle /\ ShapeIdle /\ RenderIdle /\ PureIdle

\* The state before any function is called on its own
InitPure == HitListIdle /\ GlassIdle /\ NodeIdle /\ SceneIdle /\ TraceIdle /\ OthersIdle

\* The next hit of the ray: farther than the last one, on a sphere the ray
\* has not met twice yet.
GlassPush ==
  /\ focal = 0
  /\ \E object \in 1..Len(GlassSpheres), distance \in GlassDistances :
       /\ glass_hits # <<>> => RLt(glass_hits[Len(glass_hits)].distance, distance)
       /\ Cardinality({k \in 1..Len(glass_hits) : glass_hits[k].object = object}) < 2
       /\ glass_hits' = push(glass_hits, object, distance)
  /\ UNCHANGED <<focal, refractivity>>
  /\ UNCHANGED glassRest

\* LightingData::calculate(ray, &hits[i], &hits), for its refractivity
ComputeRefractivity ==
  /\ focal = 0
  /\ \E i \in 1..Len(glass_hits) :
       /\ focal' = i
       /\ refractivity' = compute_refractivity(glass_hits[i], glass_hits, GlassSpheres)
  /\ UNCHANGED glass_hits
  /\ UNCHANGED glassRest

InitRefractivity == GlassIdle /\ HitListIdle /\ NodeIdle /\ SceneIdle /\ TraceIdle /\ OthersIdle

NextRefractivity == GlassPush \/ ComputeRefractivity

SpecRefractivity == InitRefractivity /\ [][NextRefractivity]_vars

-----------------------------------------------------------------------------
(* Building a SceneNode (src/src/scene.rs) and sending points through it.  *)

\* The singular matrix of matrix4x4_inversion_should_fail_if_not_possible
SingularMatrix ==
  << R(-4), R(2), R(-2), R(-3),
     R(9), R(6), R(2), R(6),
     Zero, R(-5), One, R(-5),
     Zero, Zero, Zero, Zero >>

\* The transforms a node is given: invertible ones, two singular ones, and
\* one whose determinant is 1e-6.
Transforms ==
  { identity,
    translate(R(5), R(-3), Two),
    scale(Two, R(3), Four),
    scale(Half, Half, Half),
    shear(One, Zero, Zero, Zero, Zero, Zero),
    MatMul(translate(Zero, One, Zero), scale(Two, Two, Two)),
    scale(Zero, One, One),
    SingularMatrix,
    scale(Rat(1, 100), Rat(1, 100), Rat(1, 100)) }

NodeMaterials ==
  { DefaultMaterial,
    [DefaultMaterial EXCEPT !.reflectivity = Half],
    [DefaultMaterial EXCEPT !.transparency = One, !.refractivity = Rat(3, 2)] }

Points ==
  { point(Zero, Zero, Zero), point(One, Two, R(3)), point(R(-1), Half, Zero) }

\* SceneNode::new
NodeNew ==
  /\ \E shape \in {"Sphere", "Plane"} : node' = NewNode(shape)
  /\ node_call' = "new"
  /\ inverted' = Err
  /\ probe' = NoProbe
  /\ UNCHANGED nodeRest

\* SceneNode::with_transform
WithTransform ==
  /\ \E transform \in Transforms :
       /\ node' = with_transform(node, transform)
       /\ inverted' = invert(transform)
  /\ node_call' = "with_transform"
  /\ probe' = NoProbe
  /\ UNCHANGED nodeRest

\* SceneNode::with_material
WithMaterial ==
  /\ \E material \in NodeMaterials : node' = with_material(node, material)
  /\ node_call' = "with_material"
  /\ probe' = NoProbe
  /\ UNCHANGED inverted
  /\ UNCHANGED nodeRest

\* node.world_to_object(node.object_to_world(p))
RoundTrip ==
  /\ \E p \in Points :
       probe' = [sent |-> p, back |-> world_to_object(node, object_to_world(node, p))]
  /\ node_call' = "round_trip"
  /\ UNCHANGED <<node, inverted>>
  /\ UNCHANGED nodeRest

InitNode == NodeIdle /\ HitListIdle /\ GlassIdle /\ SceneIdle /\ TraceIdle /\ OthersIdle

NextNode == NodeNew \/ WithTransform \/ WithMaterial \/ RoundTrip

SpecNode == InitNode /\ [][NextNode]_vars

-----------------------------------------------------------------------------
(* A scene of opaque spheres and point lights on the z axis, assembled     *)
(* with add_object and add_light, traced and asked for shadows.            *)

MaxObjects == 2
MaxLights == 2

\* The unit sphere, and the unit sphere moved to (0, 0, 3)
LitObjects ==
  { NewNode("Sphere"),
    with_transform(NewNode("Sphere"), translate(Zero, Zero, R(3))) }

\* A light between the two spheres and one beyond the second
LitLights ==
  { PointLight(point(Zero, Zero, Rat(3, 2)), WHITE),
    PointLight(point(Zero, Zero, R(5)), RED) }

\* Rays from between the spheres: towards the second, towards the first, and
\* past both
LitRays ==
  << Ray(point(Zero, Zero, Rat(3, 2)), vec3(Zero, Zero, One)),
     Ray(point(Zero, Zero, Rat(3, 2)), vec3(Zero, Zero, R(-1))),
     Ray(point(Zero, Zero, Rat(3, 2)), vec3(Zero, One, Zero)) >>

ShadowPoints ==
  << point(Zero, Zero, Rat(3, 2)), point(Zero, Zero, Rat(-3, 2)) >>

\* Every node is a sphere that the ray meets at rational distances or not
\* at all.
IntersectExact(nodes, ray) ==
  \A k \in 1..Len(nodes) :
    nodes[k].object = "Sphere" =>
      SphereExact(MatRay(nodes[k].inverse_transform, ray))

\* The shadow rays from the point to every light have rational directions,
\* lengths and hits.
ShadowsExact(s, point_) ==
  \A k \in 1..Len(s.lights) :
    /\ CanNormalize(VSub(s.lights[k].position, point_))
    /\ IntersectExact(s.nodes,
                      Ray(point_, normalize(VSub(s.lights[k].position, point_))))

\* The LightingData of that hit
TracedData(s, ray) ==
  CHOOSE r \in
    { calculate(ray, Hit(h.object, h.distance), SceneIntersect(s.nodes, ray), s.nodes)
      : h \in {TracedHit(s, ray)} } : TRUE

\* Scene::new
SceneNew ==
  /\ world # NewScene
  /\ world' = NewScene
  /\ world_call' = [op |-> "new", ray |-> 0, point |-> 0]
  /\ world_result' = NoResult
  /\ UNCHANGED sceneRest

\* Scene::add_object
AddObject ==
  /\ Len(world.nodes) < MaxObjects
  /\ \E object \in LitObjects :
       world' = [world EXCEPT !.nodes = Append(@, object)]
  /\ world_call' = [op |-> "add_object", ray |-> 0, point |-> 0]
  /\ world_result' = NoResult
  /\ UNCHANGED sceneRest

\* Scene::add_light
AddLight ==
  /\ Len(world.lights) < MaxLights
  /\ \E light \in LitLights :
       world' = [world EXCEPT !.lights = Append(@, light)]
  /\ world_call' = [op |-> "add_light", ray |-> 0, point |-> 0]
  /\ world_result' = NoResult
  /\ UNCHANGED sceneRest

\* scene.ambient_color = ..., as background_color_is_used_when_ray_misses does
SetAmbientColor ==
  /\ \E color \in {BLACK, RED} :
       /\ color # world.ambient_color
       /\ world' = [world EXCEPT !.ambient_color = color]
  /\ world_call' = [op |-> "ambient_color", ray |-> 0, point |-> 0]
  /\ world_result' = NoResult
  /\ UNCHANGED sceneRest

\* The ray can be traced with rational numbers, and meets no reflective
\* and no transparent material.
TraceLitExact(s, ray) ==
  /\ IntersectExact(s.nodes, ray)
  /\ \E h \in {TracedHit(s, ray)} :
       h.some =>
         /\ NormalExact(s.nodes[h.object], position(ray, h.distance))
         /\ \E ld \in {TracedData(s, ray)} :
              /\ ShadowsExact(s, ld.over_position)
              /\ ReflectedIsBlack(s.nodes[h.object].material)
              /\ RefractedIsBlack(ld, s.nodes[h.object].material, 0)

\* Scene::trace, on a scene whose materials are all opaque and matte
TraceLit ==
  /\ world_call.op \notin {"trace", "is_shadowed"}
  /\ \E r \in 1..Len(LitRays) :
       /\ TraceLitExact(world, LitRays[r])
       /\ world_call' = [op |-> "trace", ray |-> r, point |-> 0]
       /\ world_result' = [color |-> TraceOpaque(world, LitRays[r]), in_shadow |-> FALSE]
  /\ UNCHANGED world
  /\ UNCHANGED sceneRest

\* Scene::is_shadowed
IsShadowed ==
  /\ world_call.op \notin {"trace", "is_shadowed"}
  /\ \E p \in 1..Len(ShadowPoints) :
       /\ ShadowsExact(world, ShadowPoints[p])
       /\ world_call' = [op |-> "is_shadowed", ray |-> 0, point |-> p]
       /\ world_result' =
            [color |-> BLACK,
             in_shadow |-> is_shadowed(world.nodes, world.lights, ShadowPoints[p])]
  /\ UNCHANGED world
  /\ UNCHANGED sceneRest

InitLighting == SceneIdle /\ HitListIdle /\ GlassIdle /\ NodeIdle /\ TraceIdle /\ OthersIdle

NextLighting ==
  SceneNew \/ AddObject \/ AddLight \/ SetAmbientColor \/ TraceLit \/ IsShadowed

SpecLighting == InitLighting /\ [][NextLighting]_vars

-----------------------------------------------------------------------------
(* Scene::trace: the recursion of trace_inner through apply_lighting,      *)
(* reflected_color and refracted_color. What Scene::intersect and          *)
(* LightingData::calculate give for a ray is an input: the scene says which *)
(* surface a primary, a reflected and a refracted ray meet.                *)

\* The light of the traced scenes
TraceLight == PointLight(point(Zero, Zero, R(-3)), WHITE)

\* The LightingData of the ray (0,0,-5) -> (0,0,1) meeting the unit sphere
\* of the material head on, from outside
HeadOn(material) ==
  calculate(Ray(point(Zero, Zero, R(-5)), vec3(Zero, Zero, One)),
            Hit(1, Four), <<Hit(1, Four), Hit(1, R(6))>>,
            <<with_material(NewNode("Sphere"), material)>>)

\* The LightingData of a ray that grazes the same point, leaving a medium
\* of index n1 for one of index n2
Grazing(material, n1, n2) ==
  [HeadOn(material) EXCEPT !.eye = vec3(Zero, One, Zero),
                           !.reflect_direction = vec3(Zero, R(-1), Zero),
                           !.refractivity = <<n1, n2>>]

Matte == DefaultMaterial
Mirror == [DefaultMaterial EXCEPT !.reflectivity = Half]
Glass == [DefaultMaterial EXCEPT !.transparency = One, !.refractivity = Rat(3, 2)]
GlassyMirror ==
  [DefaultMaterial EXCEPT !.reflectivity = Half, !.transparency = Half,
                          !.refractivity = Rat(3, 2)]

\* The surfaces a ray can meet: matte, mirror, glass and reflective glass
\* head on, and glass at an angle of total internal reflection.
TraceSurfaces ==
  << [material |-> Matte, lighting_data |-> HeadOn(Matte), in_shadow |-> TRUE],
     [material |-> Mirror, lighting_data |-> HeadOn(Mirror), in_shadow |-> FALSE],
     [material |-> Glass, lighting_data |-> HeadOn(Glass), in_shadow |-> FALSE],
     [material |-> GlassyMirror, lighting_data |-> HeadOn(GlassyMirror),
      in_shadow |-> FALSE],
     [material |-> Glass, lighting_data |-> Grazing(Glass, Rat(3, 2), One),
      in_shadow |-> FALSE] >>

TraceScenes ==
  { TraceScene(ambient_color, <<TraceLight>>, primary, reflected, refracted) :
      ambient_color \in {BLACK, RED},
      primary \in 0..Len(TraceSurfaces),
      reflected \in 0..Len(TraceSurfaces),
      refracted \in 0..Len(TraceSurfaces) }

\* An activation of trace_inner(ray, depth) for a ray of the kind
Frame(depth, kind) ==
  [ depth |-> depth, kind |-> kind, pc |-> "trace_inner", meets |-> 0,
    surface |-> BLACK, reflected |-> BLACK, refracted |-> BLACK ]

\* The test of trace_inner on its depth
DepthExhaustedLate(depth) == depth > MAX_DEPTH

DepthExhausted(depth) == depth >= MAX_DEPTH

\* trace_inner returns the colour: its activation ends and its caller,
\* reflected_color or refracted_color, scales the colour by the
\* reflectivity or the transparency of the material it is lighting.
Return(frames, color) ==
  CHOOSE r \in
    { IF rest = <<>> THEN <<>>
      ELSE CHOOSE q \in
             { Append(SubSeq(rest, 1, Len(rest) - 1),
                      IF caller.pc = "reflected_color:trace_inner"
                      THEN [caller EXCEPT
                              !.reflected =
                                CScale(c, TraceSurfaces[caller.meets].material.reflectivity),
                              !.pc = "refracted_color"]
                      ELSE [caller EXCEPT
                              !.refracted =
                                CScale(c, TraceSurfaces[caller.meets].material.transparency),
                              !.pc = "combine"])
               : caller \in {rest[Len(rest)]} } : TRUE
      : rest \in {SubSeq(frames, 1, Len(frames) - 1)}, c \in {color} } : TRUE

\* Scene::trace
Trace ==
  /\ stack = <<>>
  /\ \E s \in TraceScenes : trace_scene' = s
  /\ stack' = <<Frame(0, "primary")>>
  /\ returned' = NoReturn
  /\ work' = [calls |-> 1, shaded |-> 0]
  /\ UNCHANGED traceRest

\* Scene::trace_inner, up to its call of apply_lighting and, in it, up to
\* the call of reflected_color
TraceInner ==
  /\ stack # <<>>
  /\ \E top \in {stack[Len(stack)]} :
       /\ top.pc = "trace_inner"
       /\ IF DepthExhausted(top.depth) \/ trace_scene.meets[top.kind] = 0
          THEN /\ stack' = Return(stack, trace_scene.ambient_color)
               /\ returned' = [some |-> TRUE, depth |-> top.depth,
                               color |-> trace_scene.ambient_color]
               /\ UNCHANGED work
          ELSE /\ \E met \in {TraceSurfaces[trace_scene.meets[top.kind]]} :
                    stack' =
                      [stack EXCEPT ![Len(stack)] =
                         [top EXCEPT
                            !.meets = trace_scene.meets[top.kind],
                            !.surface =
                              SurfaceLighting(trace_scene.ambient_color,
                                              trace_scene.lights,
                                              Len(trace_scene.lights),
                                              met.material, met.lighting_data,
                                              met.in_shadow),
                            !.pc = "reflected_color"]]
               /\ work' = [work EXCEPT !.shaded = @ + 1]
               /\ UNCHANGED returned
  /\ UNCHANGED trace_scene
  /\ UNCHANGED traceRest

\* Scene::reflected_color, up to its return or its call of trace_inner
ReflectedColor ==
  /\ stack # <<>>
  /\ \E top \in {stack[Len(stack)]} :
       /\ top.pc = "reflected_color"
       /\ IF ReflectedIsBlack(TraceSurfaces[top.meets].material)
          THEN /\ stack' = [stack EXCEPT ![Len(stack)] =
                              [top EXCEPT !.reflected = BLACK, !.pc = "refracted_color"]]
               /\ UNCHANGED work
          ELSE /\ stack' =
                    Append([stack EXCEPT ![Len(stack)] =
                              [top EXCEPT !.pc = "reflected_color:trace_inner"]],
                           Frame(top.depth + 1, "reflected"))
               /\ work' = [work EXCEPT !.calls = @ + 1]
  /\ UNCHANGED <<trace_scene, returned>>
  /\ UNCHANGED traceRest

\* Scene::refracted_color, up to its return or its call of trace_inner
RefractedColor ==
  /\ stack # <<>>
  /\ \E top \in {stack[Len(stack)]} :
       /\ top.pc = "refracted_color"
       /\ IF RefractedIsBlack(TraceSurfaces[top.meets].lighting_data,
                              TraceSurfaces[top.meets].material, top.depth)
          THEN /\ stack' = [stack EXCEPT ![Len(stack)] =
                              [top EXCEPT !.refracted = BLACK, !.pc = "combine"]]
               /\ UNCHANGED work
          ELSE /\ stack' =
                    Append([stack EXCEPT ![Len(stack)] =
                              [top EXCEPT !.pc = "refracted_color:trace_inner"]],
                           Frame(top.depth + 1, "refracted"))
               /\ work' = [work EXCEPT !.calls = @ + 1]
  /\ UNCHANGED <<trace_scene, returned>>
  /\ UNCHANGED traceRest

\* The end of Scene::apply_lighting, and with it of trace_inner: the colours
\* are combined and returned.
ApplyLighting ==
  /\ stack # <<>>
  /\ \E top \in {stack[Len(stack)]} :
       /\ top.pc = "combine"
       /\ \E color \in { Combine(TraceSurfaces[top.meets].material,
                                 TraceSurfaces[top.meets].lighting_data,
                                 top.surface, top.reflected, top.refracted) } :
            /\ stack' = Return(stack, color)
            /\ returned' = [some |-> TRUE, depth |-> top.depth, color |-> color]
  /\ UNCHANGED <<trace_scene, work>>
  /\ UNCHANGED traceRest

Init == TraceIdle /\ HitListIdle /\ GlassIdle /\ NodeIdle /\ SceneIdle /\ OthersIdle

Next == Trace \/ TraceInner \/ ReflectedColor \/ RefractedColor \/ ApplyLighting

Spec == Init /\ [][Next]_vars

\* The program runs the trace to its end: a step that can be taken is taken.
FairSpec == Spec /\ WF_vars(Next)

-----------------------------------------------------------------------------
(* Scene::reflected_color and Scene::refracted_color called on their own,  *)
(* as the tests of src/src/scene.rs call them: the colour the recursive    *)
(* trace_inner gives back is an input.                                     *)

\* The LightingData of the ray (0,1,-5) -> (0,0,1), which touches the unit
\* sphere of the material at (0,1,0): the eye is at a right angle to the
\* normal.
Tangent(material) ==
  calculate(Ray(point(Zero, One, R(-5)), vec3(Zero, Zero, One)),
            Hit(1, R(5)), <<Hit(1, R(5)), Hit(1, R(5))>>,
            <<with_material(NewNode("Sphere"), material)>>)

\* A material that reflects and transmits less than is_approx tells from 0
Faint ==
  [DefaultMaterial EXCEPT !.reflectivity = Rat(1, 1000000),
                          !.transparency = Rat(1, 1000000)]

\* The material of create_glass_sphere(1.)
ClearGlass == [DefaultMaterial EXCEPT !.transparency = One]

\* The surfaces of the trace, a faint one, and clear glass touched by the ray
ShadeSurfaces ==
  TraceSurfaces \o
  << [material |-> Faint, lighting_data |-> HeadOn(Faint), in_shadow |-> FALSE],
     [material |-> ClearGlass, lighting_data |-> Tangent(ClearGlass),
      in_shadow |-> FALSE] >>

\* The depths reflected_color and refracted_color are called at
ShadeDepths == 0..(MAX_DEPTH + 1)

\* The colours the recursive trace_inner gives back
TracedColors == {BLACK, WHITE, rgb(Half, Rat(1, 4), Zero)}

\* A call of trace_inner(ray, depth)
TraceCall(ray, depth) == [ray |-> ray, depth |-> depth]

\* Scene::reflected_color: the colour it returns and the calls of
\* trace_inner it makes, traced being what the call gives back
reflected_color(lighting_data, material, depth, traced) ==
  IF ReflectedIsBlack(material)
  THEN [color |-> BLACK, calls |-> <<>>]
  ELSE [color |-> CScale(traced, material.reflectivity),
        calls |-> <<TraceCall(Ray(lighting_data.over_position,
                                  lighting_data.reflect_direction),
                              depth + 1)>>]

\* Scene::refracted_color, likewise
refracted_color(lighting_data, material, depth, traced) ==
  IF RefractedIsBlack(lighting_data, material, depth)
  THEN [color |-> BLACK, calls |-> <<>>]
  ELSE [color |-> CScale(traced, material.transparency),
        calls |-> <<TraceCall(Ray(lighting_data.under_position,
                                  RefractedDirection(lighting_data)),
                              depth + 1)>>]

ShadeCall(op, surface, depth, traced) ==
  [op |-> op, surface |-> surface, depth |-> depth, traced |-> traced]

\* self.reflected_color(&lighting_data, depth)
ReflectedColorCall ==
  /\ \E surface \in 1..Len(ShadeSurfaces), depth \in ShadeDepths,
        traced \in TracedColors :
       /\ shade_call' = ShadeCall("reflected_color", surface, depth, traced)
       /\ shade_result' =
            reflected_color(ShadeSurfaces[surface].lighting_data,
                            ShadeSurfaces[surface].material, depth, traced)
  /\ UNCHANGED shadeRest

\* self.refracted_color(&lighting_data, depth)
RefractedColorCall ==
  /\ \E surface \in 1..Len(ShadeSurfaces), depth \in ShadeDepths,
        traced \in TracedColors :
       /\ shade_call' = ShadeCall("refracted_color", surface, depth, traced)
       /\ shade_result' =
            refracted_color(ShadeSurfaces[surface].lighting_data,
                            ShadeSurfaces[surface].material, depth, traced)
  /\ UNCHANGED shadeRest

InitShade ==
  /\ ShadeIdle /\ ShapeIdle /\ RenderIdle /\ PureIdle
  /\ HitListIdle /\ GlassIdle /\ NodeIdle /\ SceneIdle /\ TraceIdle

NextShade == ReflectedColorCall \/ RefractedColorCall

SpecShade == InitShade /\ [][NextShade]_vars

-----------------------------------------------------------------------------
(* Scene::apply_lighting called on its own: the colour the loop over the   *)
(* lights gives and the colours the two recursive trace_inner calls give   *)
(* back are inputs.                                                        *)

\* The LightingData of a ray that meets the same point of the sphere at an
\* angle, the eye being (0, sin, -cos) to the normal (0, 0, -1), leaving a
\* medium of index n1 for one of index n2
Oblique(material, sin_i, cos_i, n1, n2) ==
  [HeadOn(material) EXCEPT !.eye = vec3(Zero, sin_i, RNeg(cos_i)),
                           !.reflect_direction = vec3(Zero, RNeg(sin_i), RNeg(cos_i)),
                           !.refractivity = <<n1, n2>>]

\* The surfaces above, and reflective glass left at an angle of total
\* internal reflection, at the critical angle and below it, and head on
ApplySurfaces ==
  ShadeSurfaces \o
  << [material |-> GlassyMirror,
      lighting_data |-> Grazing(GlassyMirror, Rat(3, 2), One), in_shadow |-> FALSE],
     [material |-> GlassyMirror,
      lighting_data |-> Oblique(GlassyMirror, Rat(3, 5), Rat(4, 5), Rat(4, 3), One),
      in_shadow |-> FALSE],
     [material |-> GlassyMirror,
      lighting_data |-> Oblique(GlassyMirror, Rat(4, 5), Rat(3, 5), Rat(5, 4), One),
      in_shadow |-> FALSE],
     [material |-> GlassyMirror,
      lighting_data |-> Oblique(GlassyMirror, Zero, One, Rat(3, 2), One),
      in_shadow |-> FALSE] >>

\* The colours the loop over the lights leaves in `surface`
SurfaceColors == {BLACK, rgb(Rat(1, 10), Rat(1, 5), Rat(3, 10))}

\* The colours trace_inner gives back for the reflected and the refracted ray
ReflectedTraces == {WHITE, rgb(Half, Rat(1, 4), Zero)}
RefractedTraces == {BLACK, rgb(Zero, Half, One)}

\* The surface lit, the depth and the colours of one call; apply_lighting is
\* called by trace_inner at a depth below MAX_DEPTH
InitApply ==
  /\ \E surface \in 1..Len(ApplySurfaces), depth \in {0, MAX_DEPTH - 1},
        direct \in SurfaceColors, reflected \in ReflectedTraces,
        refracted \in RefractedTraces :
       pure_call = [op |-> "apply_lighting", surface |-> surface, depth |-> depth,
                    direct |-> direct, reflected |-> reflected, refracted |-> refracted]
  /\ pure_result = [op |-> "none"]
  /\ HitListIdle /\ GlassIdle /\ NodeIdle /\ SceneIdle /\ TraceIdle
  /\ ShadeIdle /\ ShapeIdle /\ RenderIdle

\* self.apply_lighting(ray, hit, hits, depth)
ApplyLightingCall ==
  /\ pure_call.op = "apply_lighting" /\ pure_result.op = "none"
  /\ \E lit \in {ApplySurfaces[pure_call.surface]} :
       \E reflected \in {reflected_color(lit.lighting_data, lit.material,
                                         pure_call.depth, pure_call.reflected)},
          refracted \in {refracted_color(lit.lighting_data, lit.material,
                                         pure_call.depth, pure_call.refracted)} :
         pure_result' =
           [op |-> "apply_lighting",
            reflected |-> reflected, refracted |-> refracted,
            color |-> Combine(lit.material, lit.lighting_data, pure_call.direct,
                              reflected.color, refracted.color)]
  /\ UNCHANGED pure_call
  /\ UNCHANGED pureRest

NextApply == ApplyLightingCall

SpecApply == InitApply /\ [][NextApply]_vars

-----------------------------------------------------------------------------
(* Camera::render (src/src/scene/cameras.rs) writing a Canvas              *)
(* (src/src/graphics.rs).                                                  *)

\* Camera::new(width, height, field_of_view) followed by
\* `camera.transform = transform`, as the tests of cameras.rs do; half_view
\* is (field_of_view / 2.).tan().
Camera(width, height, half_view, transform) ==
  CHOOSE r \in
    { [ width |-> width, height |-> height,
        half_width |-> IF RLe(One, aspect) THEN half_view ELSE RMul(half_view, aspect),
        half_height |-> IF RLe(One, aspect) THEN RDiv(half_view, aspect) ELSE half_view,
        pixel_size |->
          RDiv(RMul(IF RLe(One, aspect) THEN half_view ELSE RMul(half_view, aspect),
                    Two),
               R(width)),
        transform |-> transform ]
      : aspect \in {Rat(width, height)} } : TRUE

\* The point of the image plane, in camera space, that the pixel looks at
PixelTarget(cam, x, y) ==
  point(RSub(cam.half_width, RMul(RAdd(R(x), Half), cam.pixel_size)),
        RSub(cam.half_height, RMul(RAdd(R(y), Half), cam.pixel_size)),
        R(-1))

\* Camera::ray_for_pixel, for a camera whose transform can be inverted
ray_for_pixel(cam, x, y) ==
  CHOOSE r \in
    { Ray(MatVec(inverse, point(Zero, Zero, Zero)),
          normalize(VSub(MatVec(inverse, PixelTarget(cam, x, y)),
                         MatVec(inverse, point(Zero, Zero, Zero)))))
      : inverse \in {invert(cam.transform).value} } : TRUE

\* Canvas::new
CanvasNew(width, height) ==
  [ width |-> width, height |-> height,
    pixels |-> [i \in 1..(width * height) |-> BLACK] ]

PixelIndexByHeight(cv, x, y) == x + y * cv.height

PixelIndexDiagonal(cv, x, y) == x + y

\* The index of the pixel (x, y) in Canvas::pixels
PixelIndex(cv, x, y) == x + y * cv.width

\* Canvas::set_pixel, for an index within the pixels
set_pixel(cv, x, y, color) ==
  [cv EXCEPT !.pixels[PixelIndex(cv, x, y) + 1] = color]

\* The floor: a plane one unit below the camera
Floor ==
  with_transform(with_material(NewNode("Plane"),
                               [DefaultMaterial EXCEPT !.shininess = 2]),
                 translate(Zero, R(-1), Zero))

\* Cameras at the origin looking down -z: their pixels are looked at along
\* directions of rational length.
Cameras ==
  { Camera(1, 1, One, identity), Camera(2, 1, Rat(3, 2), identity),
    Camera(1, 2, Rat(3, 2), identity), Camera(3, 1, Rat(9, 8), identity),
    Camera(1, 3, Rat(9, 8), identity), Camera(2, 2, Four, identity) }

\* Empty scenes, and the floor under a light
RenderScenes ==
  { [ambient_color |-> ambient_color, nodes |-> nodes, lights |-> lights] :
      ambient_color \in {BLACK, RED, WHITE},
      nodes \in {<<>>, <<Floor>>},
      lights \in { <<>>,
                   <<PointLight(point(One, Rat(5001, 10000), Rat(-1, 2)), WHITE)>>,
                   <<PointLight(point(Zero, Rat(1, 10000), Rat(-4, 3)), WHITE)>> } }

\* Every pixel of the camera can be traced in the scene with rational numbers
RenderExact(cam, s) ==
  \A x \in 0..(cam.width - 1), y \in 0..(cam.height - 1) :
    /\ CanNormalize(VSub(PixelTarget(cam, x, y), point(Zero, Zero, Zero)))
    /\ TraceLitExact(s, ray_for_pixel(cam, x, y))

\* The loop of Camera::render after the pixel (x, y): the next x, the next
\* row, or the end
NextPixel(cam, x, y) ==
  IF x + 1 < cam.width THEN [state |-> "loop", x |-> x + 1, y |-> y]
  ELSE IF y + 1 < cam.height THEN [state |-> "loop", x |-> 0, y |-> y + 1]
  ELSE [state |-> "done", x |-> 0, y |-> 0]

\* Camera::render up to its loop: Canvas::new(self.width, self.height)
RenderBegin ==
  /\ cursor.state = "idle"
  /\ \E cam \in Cameras, s \in RenderScenes :
       /\ RenderExact(cam, s)
       /\ camera' = cam
       /\ render_scene' = s
       /\ canvas' = CanvasNew(cam.width, cam.height)
       /\ written' = [i \in 1..(cam.width * cam.height) |-> 0]
  /\ cursor' = [state |-> "loop", x |-> 0, y |-> 0]
  /\ UNCHANGED renderRest

\* The body of the loop for the pixel (x, y): ray_for_pixel, Scene::trace,
\* Canvas::set_pixel, which panics on an index outside the pixels
PixelBody(x, y, then) ==
  \E color \in {TraceOpaque(render_scene, ray_for_pixel(camera, x, y))} :
    IF PixelIndex(canvas, x, y) < Len(canvas.pixels)
    THEN /\ canvas' = set_pixel(canvas, x, y, color)
         /\ written' = [written EXCEPT ![PixelIndex(canvas, x, y) + 1] = @ + 1]
         /\ cursor' = then
    ELSE /\ cursor' = [state |-> "panic", x |-> x, y |-> y]
         /\ UNCHANGED <<canvas, written>>

\* One turn of the loops of Camera::render
RenderPixel ==
  /\ cursor.state = "loop"
  /\ PixelBody(cursor.x, cursor.y, NextPixel(camera, cursor.x, cursor.y))
  /\ UNCHANGED <<camera, render_scene>>
  /\ UNCHANGED renderRest

InitRender ==
  /\ RenderIdle /\ ShadeIdle /\ ShapeIdle /\ PureIdle
  /\ HitListIdle /\ GlassIdle /\ NodeIdle /\ SceneIdle /\ TraceIdle

NextRender == RenderBegin \/ RenderPixel

SpecRender == InitRender /\ [][NextRender]_vars

-----------------------------------------------------------------------------
(* The loop of Camera::render with its pixels shared out: each worker runs *)
(* the body of the loop for the cells of its own rows, in any order, and   *)
(* the workers' turns interleave.                                          *)

Workers == 2

\* The canvas Camera::render returns: the body of its loop for the first k
\* cells in the order of the loop, row after row
RECURSIVE RenderLoop(_, _, _)
RenderLoop(cam, s, k) ==
  IF k = 0 THEN CanvasNew(cam.width, cam.height)
  ELSE set_pixel(RenderLoop(cam, s, k - 1),
                 (k - 1) % cam.width, (k - 1) \div cam.width,
                 TraceOpaque(s, ray_for_pixel(cam, (k - 1) % cam.width,
                                              (k - 1) \div cam.width)))

\* Camera::render
render(cam, s) == RenderLoop(cam, s, cam.width * cam.height)

\* The cells of the canvas
Cells(cam) == (0..(cam.width - 1)) \X (0..(cam.height - 1))

Sharded(todo) == [state |-> "sharded", x |-> 0, y |-> 0, todo |-> todo]

\* Canvas::new, and every cell still to do
ShardedBegin ==
  /\ cursor.state = "idle"
  /\ \E cam \in Cameras, s \in RenderScenes :
       /\ RenderExact(cam, s)
       /\ camera' = cam
       /\ render_scene' = s
       /\ canvas' = CanvasNew(cam.width, cam.height)
       /\ written' = [i \in 1..(cam.width * cam.height) |-> 0]
       /\ cursor' = Sharded(Cells(cam))
  /\ UNCHANGED renderRest

\* A worker runs the body of the loop for one of the cells of its rows
WorkerPixel ==
  /\ cursor.state = "sharded"
  /\ \E w \in 0..(Workers - 1) :
       \E cell \in cursor.todo :
         /\ cell[2] % Workers = w
         /\ PixelBody(cell[1], cell[2], Sharded(cursor.todo \ {cell}))
  /\ UNCHANGED <<camera, render_scene>>
  /\ UNCHANGED renderRest

\* Every worker is through: the canvas is returned
WorkersJoin ==
  /\ cursor.state = "sharded"
  /\ cursor.todo = {}
  /\ cursor' = [state |-> "done", x |-> 0, y |-> 0]
  /\ UNCHANGED <<camera, render_scene, canvas, written>>
  /\ UNCHANGED renderRest

NextSharded == ShardedBegin \/ WorkerPixel \/ WorkersJoin

SpecSharded == InitRender /\ [][NextSharded]_vars

-----------------------------------------------------------------------------
(* Shapes and nodes asked for their intersections and normals, degenerate  *)
(* rays included. A degenerate ray has a direction of length zero or with  *)
(* NaN components; on it the f64 arithmetic of the source leaves the       *)
(* rationals: 0/0 is NaN, NaN spreads through +, -, * and /, and every     *)
(* comparison with NaN is false. The operators below are Sphere::intersect, *)
(* Plane::intersect, SceneNode::intersect and Scene::intersect on such     *)
(* values. A nonzero number is never divided by zero on these rays, so the *)
(* infinities are only named.                                              *)

NaN == <<0, 0>>
Infinity == <<1, 0>>
IsNaN(x) == x = NaN

FNeg(x) == IF IsNaN(x) THEN NaN ELSE RNeg(x)
FAbs(x) == IF IsNaN(x) THEN NaN ELSE RAbs(x)
FAdd(x, y) == IF IsNaN(x) \/ IsNaN(y) THEN NaN ELSE RAdd(x, y)
FSub(x, y) == IF IsNaN(x) \/ IsNaN(y) THEN NaN ELSE RSub(x, y)
FMul(x, y) == IF IsNaN(x) \/ IsNaN(y) THEN NaN ELSE RMul(x, y)
FDiv(x, y) ==
  IF IsNaN(x) \/ IsNaN(y) THEN NaN
  ELSE IF y = Zero
       THEN (IF x = Zero THEN NaN ELSE IF RLt(x, Zero) THEN RNeg(Infinity) ELSE Infinity)
       ELSE RDiv(x, y)
FSqrt(x) == IF IsNaN(x) \/ RLt(x, Zero) THEN NaN ELSE RSqrt(x)
FLt(x, y) == ~IsNaN(x) /\ ~IsNaN(y) /\ RLt(x, y)
FLe(x, y) == ~IsNaN(x) /\ ~IsNaN(y) /\ RLe(x, y)

\* Vector::dot, impl Sub for Vector, impl Mul<Vector> for Matrix4x4
FDot(a, b) ==
  FAdd(FAdd(FAdd(FMul(a[1], b[1]), FMul(a[2], b[2])), FMul(a[3], b[3])),
       FMul(a[4], b[4]))

FVSub(a, b) == [i \in 1..4 |-> FSub(a[i], b[i])]

FMatVec(m, v) ==
  [i \in 1..4 |->
     FAdd(FAdd(FAdd(FMul(At(m, 4, i - 1, 0), v[1]), FMul(At(m, 4, i - 1, 1), v[2])),
               FMul(At(m, 4, i - 1, 2), v[3])),
          FMul(At(m, 4, i - 1, 3), v[4]))]

\* Sphere::intersect
SphereIntersectIEEE(object_ray) ==
  LET sphere_to_ray == FVSub(object_ray.origin, point(Zero, Zero, Zero))
      a == FDot(object_ray.direction, object_ray.direction)
      b == FMul(Two, FDot(sphere_to_ray, object_ray.direction))
      c == FSub(FDot(sphere_to_ray, sphere_to_ray), One)
      discriminant == FSub(FMul(b, b), FMul(FMul(Four, a), c))
  IN  IF FLe(Zero, discriminant)
      THEN << FDiv(FSub(FNeg(b), FSqrt(discriminant)), FMul(Two, a)),
              FDiv(FAdd(FNeg(b), FSqrt(discriminant)), FMul(Two, a)) >>
      ELSE <<>>

\* Plane::intersect
PlaneIntersectIEEE(object_ray) ==
  IF FLt(FAbs(object_ray.direction[2]), EPSILON)
  THEN <<>>
  ELSE << FDiv(FNeg(object_ray.origin[2]), object_ray.direction[2]) >>

ShapeIntersectIEEE(shape, object_ray) ==
  IF shape = "Sphere" THEN SphereIntersectIEEE(object_ray)
  ELSE PlaneIntersectIEEE(object_ray)

\* SceneNode::intersect
NodeIntersectIEEE(self, id, world_ray) ==
  LET distances ==
        ShapeIntersectIEEE(self.object,
                           Ray(FMatVec(self.inverse_transform, world_ray.origin),
                               FMatVec(self.inverse_transform, world_ray.direction)))
  IN  [k \in 1..Len(distances) |-> Hit(id, distances[k])]

RECURSIVE AppendAllIEEE(_, _, _)
AppendAllIEEE(nodes, k, world_ray) ==
  IF k = 0 THEN <<>>
  ELSE append(AppendAllIEEE(nodes, k - 1, world_ray),
              NodeIntersectIEEE(nodes[k], k, world_ray))

\* Scene::intersect: a.distance.partial_cmp(&b.distance) is None when either
\* distance is NaN and its unwrap() panics; sort_by compares every hit of a
\* list of two hits or more.
SceneIntersectIEEE(nodes, world_ray) ==
  LET results == AppendAllIEEE(nodes, Len(nodes), world_ray)
  IN  IF Len(results) >= 2 /\ \E k \in 1..Len(results) : IsNaN(results[k].distance)
      THEN [panic |-> TRUE, hits |-> <<>>]
      ELSE [panic |-> FALSE,
            hits |-> IF Len(results) >= 2 THEN sort_by_distance(results) ELSE results]

\* Matrix4x4::rotate_x(r), given r.cos() and r.sin()
rotate_x(cos_r, sin_r) ==
  << One, Zero, Zero, Zero,
     Zero, cos_r, RNeg(sin_r), Zero,
     Zero, sin_r, cos_r, Zero,
     Zero, Zero, Zero, One >>

\* Matrix4x4::rotate_z(r), given r.cos() and r.sin()
rotate_z(cos_r, sin_r) ==
  << cos_r, RNeg(sin_r), Zero, Zero,
     sin_r, cos_r, Zero, Zero,
     Zero, Zero, One, Zero,
     Zero, Zero, Zero, One >>

\* Rays in the object space of a shape: those of the tests of spheres.rs and
\* planes.rs, and others that meet the unit sphere at rational distances
ObjectRays ==
  << Ray(point(Zero, Zero, R(-5)), vec3(Zero, Zero, One)),
     Ray(point(Zero, One, R(-5)), vec3(Zero, Zero, One)),
     Ray(point(Zero, Two, R(-5)), vec3(Zero, Zero, One)),
     Ray(point(Zero, Zero, Zero), vec3(Zero, Zero, One)),
     Ray(point(Zero, Zero, R(5)), vec3(Zero, Zero, One)),
     Ray(point(Zero, Zero, R(-5)), vec3(Zero, Zero, Two)),
     Ray(point(Zero, Zero, R(-5)), vec3(Zero, Rat(3, 5), Rat(4, 5))),
     Ray(point(Zero, R(10), Zero), vec3(Zero, Zero, One)),
     Ray(point(Zero, One, Zero), vec3(Zero, R(-1), Zero)),
     Ray(point(Zero, R(-1), Zero), vec3(Zero, One, Zero)),
     Ray(point(Rat(3, 5), Zero, R(-2)), vec3(Zero, Zero, One)),
     Ray(point(Zero, Zero, Half), vec3(Zero, R(-1), Zero)) >>

\* Degenerate rays: a direction of length zero, or with NaN components
DegenerateRays ==
  << Ray(point(Zero, Zero, R(-5)), vec3(Zero, Zero, Zero)),
     Ray(point(Zero, Two, R(-5)), vec3(Zero, Zero, Zero)),
     Ray(point(Zero, Zero, Zero), vec3(Zero, Zero, Zero)),
     Ray(point(Zero, One, Zero), vec3(Zero, Zero, Zero)),
     Ray(point(Zero, Zero, R(-5)), vec3(NaN, NaN, NaN)),
     Ray(point(Zero, One, Zero), vec3(NaN, NaN, NaN)),
     Ray(point(Zero, One, Zero), vec3(Zero, NaN, Zero)),
     Ray(point(Zero, Zero, R(-5)), vec3(NaN, Zero, One)) >>

\* Scenes a degenerate ray is sent into
DegenerateScenes ==
  << <<>>,
     <<NewNode("Sphere")>>,
     <<NewNode("Plane")>>,
     <<NewNode("Plane"), NewNode("Sphere")>>,
     <<with_transform(NewNode("Sphere"), translate(Zero, Zero, R(3)))>>,
     <<with_transform(NewNode("Plane"), translate(Zero, R(-1), Zero)),
       with_transform(NewNode("Plane"), translate(Zero, One, Zero))>> >>

\* Nodes asked for their normal: spheres and planes, moved, scaled and turned
ShapeNodes ==
  << NewNode("Sphere"),
     with_transform(NewNode("Sphere"), translate(Zero, One, Zero)),
     with_transform(NewNode("Sphere"), scale(Two, Two, Two)),
     NewNode("Plane"),
     with_transform(NewNode("Plane"), translate(Zero, R(-1), Zero)),
     with_transform(NewNode("Plane"), rotate_z(Zero, One)),
     with_transform(NewNode("Plane"), rotate_z(Rat(3, 5), Rat(4, 5))),
     with_transform(NewNode("Plane"), scale(One, Two, One)) >>

NormalPoints ==
  << point(One, Zero, Zero), point(Zero, One, Zero), point(Zero, Zero, One),
     point(Zero, Zero, R(-1)), point(Rat(3, 5), Zero, Rat(4, 5)),
     point(Rat(24, 25), Rat(32, 25), Zero), point(Zero, Zero, Zero),
     point(Two, Zero, Zero), point(Zero, Two, Zero),
     point(R(10), Zero, Zero), point(R(-5), Zero, Zero) >>

\* Rays in the object space of a plane: the rays above, then rays behind
\* which the plane lies and rays whose direction.y is about 0.00001
PlaneRays ==
  ObjectRays \o
  << Ray(point(Zero, One, Zero), vec3(Zero, One, Zero)),
     Ray(point(Zero, R(-3), Zero), vec3(Zero, R(-1), Zero)),
     Ray(point(Zero, One, Zero), vec3(Zero, Rat(1, 200000), One)),
     Ray(point(Zero, One, Zero), vec3(Zero, Rat(-1, 200000), One)),
     Ray(point(Zero, One, Zero), vec3(Zero, Rat(1, 100000), One)),
     Ray(point(Zero, One, Zero), vec3(Zero, Rat(-1, 100000), One)),
     Ray(point(Zero, Zero, Zero), vec3(Zero, Rat(1, 100000), One)),
     Ray(point(One, R(-2), Zero), vec3(Rat(3, 5), Rat(4, 5), Zero)) >>

ShapeRays(shape) == IF shape = "Sphere" THEN ObjectRays ELSE PlaneRays

ShapeCall(op, subject, input) == [op |-> op, subject |-> subject, input |-> input]

\* shape.intersect(object_ray), on a ray that is not degenerate
ShapeIntersectCall ==
  /\ \E shape \in {"Sphere", "Plane"} :
       \E r \in 1..Len(ShapeRays(shape)) :
         /\ shape = "Sphere" => SphereExact(ObjectRays[r])
         /\ shape_call' = ShapeCall("intersect", shape, r)
         /\ shape_result' =
              [panic |-> FALSE, distances |-> ShapeIntersect(shape, ShapeRays(shape)[r])]
  /\ UNCHANGED shapeRest

\* shape.intersect(object_ray), on a degenerate ray
DegenerateIntersect ==
  /\ \E shape \in {"Sphere", "Plane"}, r \in 1..Len(DegenerateRays) :
       /\ shape_call' = ShapeCall("degenerate_intersect", shape, r)
       /\ shape_result' =
            [panic |-> FALSE,
             distances |-> ShapeIntersectIEEE(shape, DegenerateRays[r])]
  /\ UNCHANGED shapeRest

\* scene.intersect(ray), on a degenerate ray
DegenerateSceneIntersect ==
  /\ \E n \in 1..Len(DegenerateScenes), r \in 1..Len(DegenerateRays) :
       \E result \in {SceneIntersectIEEE(DegenerateScenes[n], DegenerateRays[r])} :
         /\ shape_call' = ShapeCall("degenerate_scene_intersect", n, r)
         /\ shape_result' =
              [panic |-> result.panic,
               distances |-> [k \in 1..Len(result.hits) |-> result.hits[k].distance]]
  /\ UNCHANGED shapeRest

\* node.normal_at(world_point)
NormalAtCall ==
  /\ \E n \in 1..Len(ShapeNodes), p \in 1..Len(NormalPoints) :
       /\ NormalExact(ShapeNodes[n], NormalPoints[p])
       /\ shape_call' = ShapeCall("normal_at", n, p)
       /\ shape_result' =
            [panic |-> FALSE, distances |-> <<>>,
             normal |-> normal_at(ShapeNodes[n], NormalPoints[p])]
  /\ UNCHANGED shapeRest

InitShape ==
  /\ ShapeIdle /\ ShadeIdle /\ RenderIdle /\ PureIdle
  /\ HitListIdle /\ GlassIdle /\ NodeIdle /\ SceneIdle /\ TraceIdle

NextShape ==
  ShapeIntersectCall \/ DegenerateIntersect \/ DegenerateSceneIntersect \/ NormalAtCall

SpecShape == InitShape /\ [][NextShape]_vars

-----------------------------------------------------------------------------
(* A node built by a chain of with_transform calls, as                     *)
(* normal_on_transformed_sphere builds its sphere:                         *)
(* Sphere::new().with_transform(a).with_transform(b).                      *)

\* The transforms chained: the scale of the test, a turn about z (with the
\* cosine 3/5 and the sine 4/5 in place of those of pi / 5), and others
ChainTransforms ==
  << scale(One, Half, One),
     rotate_z(Rat(3, 5), Rat(4, 5)),
     identity,
     translate(Zero, One, Zero),
     scale(Two, Two, Two),
     shear(One, Zero, Zero, Zero, Zero, Zero),
     rotate_z(Zero, One),
     translate(R(5), R(-3), Two) >>

\* The longest chain of with_transform calls
MaxChain == 2

\* S::new()
ChainNew ==
  /\ \E shape \in {"Sphere", "Plane"} :
       /\ pure_call' = [op |-> "new", shape |-> shape, transforms |-> <<>>]
       /\ pure_result' = [op |-> "new", node |-> NewNode(shape)]
  /\ UNCHANGED pureRest

\* .with_transform(t), on the node the chain has built so far
ChainWithTransform ==
  /\ pure_call.op \in {"new", "with_transform"}
  /\ Len(pure_call.transforms) < MaxChain
  /\ \E t \in 1..Len(ChainTransforms) :
       /\ pure_call' = [pure_call EXCEPT !.op = "with_transform",
                                         !.transforms = Append(@, t)]
       /\ pure_result' =
            [op |-> "with_transform",
             node |-> with_transform(pure_result.node, ChainTransforms[t])]
  /\ UNCHANGED pureRest

NextChain == ChainNew \/ ChainWithTransform

SpecChain == InitPure /\ [][NextChain]_vars

-----------------------------------------------------------------------------
(* The matrix product and the product of a matrix and a tuple              *)
(* (src/src/maths/matrices.rs), on the matrices of the tests of chained    *)
(* transforms.                                                             *)

\* The quarter turn about x, the scale and the translation of
\* chained_transformations_are_applied_in_reverse_order, the matrix of
\* matrix_multiplication_by_identity_should_be_inert, and a shear
Matrices ==
  << rotate_x(Zero, One),
     scale(R(5), R(5), R(5)),
     translate(R(10), R(5), R(7)),
     << Zero, One, Two, Four,
        One, Two, Four, R(8),
        Two, Four, R(8), R(16),
        Four, R(8), R(16), R(32) >>,
     shear(One, Zero, Zero, Two, Zero, Zero) >>

Tuples == << point(One, Zero, One), vec4(One, Two, R(3), Four) >>

\* The matrices a, b, c and the tuple p of one evaluation
InitMatrix ==
  /\ \E a \in 1..Len(Matrices), b \in 1..Len(Matrices), c \in 1..Len(Matrices),
        p \in 1..Len(Tuples) :
       pure_call = [op |-> "mul", a |-> a, b |-> b, c |-> c, p |-> p]
  /\ pure_result = [op |-> "none"]
  /\ HitListIdle /\ GlassIdle /\ NodeIdle /\ SceneIdle /\ TraceIdle
  /\ ShadeIdle /\ ShapeIdle /\ RenderIdle

\* c * b * a, (c * b * a) * p and c * (b * (a * p)); a * I and I * p
MatrixProductCall ==
  /\ pure_call.op = "mul" /\ pure_result.op = "none"
  /\ \E a \in {Matrices[pure_call.a]}, b \in {Matrices[pure_call.b]},
        c \in {Matrices[pure_call.c]}, p \in {Tuples[pure_call.p]} :
       \E cb \in {MatMul(c, b)}, ba \in {MatMul(b, a)} :
         \E cba \in {MatMul(cb, a)} :
           pure_result' =
             [op |-> "mul",
              cb |-> cb, ba |-> ba, cb_a |-> cba,
              c_ba |-> MatMul(c, ba),
              chained |-> MatVec(cba, p),
              in_sequence |-> MatVec(c, MatVec(b, MatVec(a, p))),
              a_identity |-> MatMul(a, identity),
              identity_p |-> MatVec(identity, p)]
  /\ UNCHANGED pure_call
  /\ UNCHANGED pureRest

NextMatrix == MatrixProductCall

SpecMatrix == InitMatrix /\ [][NextMatrix]_vars

-----------------------------------------------------------------------------
(* LightingData::calculate (src/src/scene/lighting.rs) called on its own,  *)
(* as its tests call it: on one node, a ray and one of the hits of the ray *)
(* on the node.                                                            *)

CalcNodes ==
  << NewNode("Sphere"),
     with_transform(NewNode("Sphere"), translate(Zero, Zero, One)),
     with_transform(NewNode("Sphere"), translate(Zero, Zero, R(3))),
     with_transform(NewNode("Sphere"), scale(Two, Two, Two)),
     NewNode("Plane"),
     with_transform(NewNode("Plane"), translate(Zero, R(-1), Zero)),
     with_transform(create_glass_sphere(Rat(3, 2)), translate(Zero, Zero, R(-1))) >>

\* Rays that start outside, inside and on the spheres, above and below the
\* planes
CalcRays ==
  << Ray(point(Zero, Zero, R(-5)), vec3(Zero, Zero, One)),
     Ray(point(Zero, Zero, Zero), vec3(Zero, Zero, One)),
     Ray(point(Zero, Zero, R(10)), vec3(Zero, Zero, R(-1))),
     Ray(point(Zero, One, R(-5)), vec3(Zero, Zero, One)),
     Ray(point(Zero, One, Zero), vec3(Zero, R(-1), Zero)),
     Ray(point(Zero, R(-2), Zero), vec3(Zero, One, Zero)),
     Ray(point(Zero, Zero, R(3)), vec3(Zero, Zero, One)),
     Ray(point(Rat(3, 5), Zero, R(-5)), vec3(Zero, Zero, One)) >>

\* The hits of the ray on the node, as SceneNode::intersect lists them
CalcHits(n, r) == NodeIntersect(CalcNodes[n], 1, CalcRays[r])

\* The ray meets the node at rational distances, in at least k hits, and the
\* normal there is rational
CalcExact(n, r, k) ==
  /\ CalcNodes[n].object = "Sphere" =>
       SphereExact(MatRay(CalcNodes[n].inverse_transform, CalcRays[r]))
  /\ k <= Len(CalcHits(n, r))
  /\ NormalExact(CalcNodes[n], position(CalcRays[r], CalcHits(n, r)[k].distance))

\* The node, the ray and the hit of one call
InitCalculate ==
  /\ \E n \in 1..Len(CalcNodes), r \in 1..Len(CalcRays), k \in 1..2 :
       /\ CalcExact(n, r, k)
       /\ pure_call = [op |-> "calculate", node |-> n, ray |-> r, hit |-> k]
  /\ pure_result = [op |-> "none"]
  /\ HitListIdle /\ GlassIdle /\ NodeIdle /\ SceneIdle /\ TraceIdle
  /\ ShadeIdle /\ ShapeIdle /\ RenderIdle

\* LightingData::calculate(ray, &hits[k], &hits)
CalculateCall ==
  /\ pure_call.op = "calculate" /\ pure_result.op = "none"
  /\ \E list \in {CalcHits(pure_call.node, pure_call.ray)} :
       pure_result' =
         [op |-> "calculate",
          data |-> calculate(CalcRays[pure_call.ray], list[pure_call.hit], list,
                             <<CalcNodes[pure_call.node]>>)]
  /\ UNCHANGED pure_call
  /\ UNCHANGED pureRest

NextCalculate == CalculateCall

SpecCalculate == InitCalculate /\ [][NextCalculate]_vars

-----------------------------------------------------------------------------
(* phong_lighting (src/src/scene/lighting.rs) called on its own, as its    *)
(* tests call it: a surface point at the origin, lit and seen from either  *)
(* side.                                                                   *)

\* The default material, and a coloured one whose highlight is wide
PhongMaterials ==
  << DefaultMaterial,
     [DefaultMaterial EXCEPT !.color = rgb(One, Half, Zero), !.ambient = Rat(1, 5),
                             !.shininess = 2] >>

\* Lights in front of the surface, behind it, to its side and level with it
PhongLights ==
  << PointLight(vec3(Zero, Zero, R(-10)), WHITE),
     PointLight(vec3(Zero, Zero, R(10)), WHITE),
     PointLight(vec3(Zero, R(6), R(-8)), WHITE),
     PointLight(vec3(Zero, R(-10), Zero), WHITE),
     PointLight(vec3(Zero, Zero, R(-10)), rgb(One, Zero, Half)) >>

PhongEyes ==
  << vec3(Zero, Zero, R(-1)), vec3(Zero, Rat(-3, 5), Rat(-4, 5)),
     vec3(Zero, Rat(3, 5), Rat(-4, 5)), vec3(Zero, Zero, One) >>

PhongNormals == << vec3(Zero, Zero, R(-1)), vec3(Zero, Zero, One) >>

\* reflect_dot_eye.powf(material.shininess) is a rational of small terms
PhongExact(light, material, world_position, eye, normal) ==
  \E light_direction \in {normalize(VSub(light.position, world_position))} :
    \E reflect_dot_eye \in {dot(VNeg(reflect(light_direction, normal)), eye)} :
      reflect_dot_eye \in {Zero, One} \/ material.shininess <= 2
      \/ RLt(dot(light_direction, normal), Zero) \/ RLt(reflect_dot_eye, Zero)

\* phong_lighting(&light, &material, position, position, eye, normal, in_shadow)
PhongLightingCall ==
  /\ \E l \in 1..Len(PhongLights), m \in 1..Len(PhongMaterials),
        e \in 1..Len(PhongEyes), n \in 1..Len(PhongNormals), in_shadow \in BOOLEAN :
       \E position_ \in {vec3(Zero, Zero, Zero)} :
         /\ PhongExact(PhongLights[l], PhongMaterials[m], position_,
                       PhongEyes[e], PhongNormals[n])
         /\ pure_call' =
              [op |-> "phong_lighting", light |-> PhongLights[l],
               material |-> PhongMaterials[m], world_position |-> position_,
               eye |-> PhongEyes[e], normal |-> PhongNormals[n],
               in_shadow |-> in_shadow]
         /\ pure_result' =
              [op |-> "phong_lighting",
               color |-> phong_lighting(PhongLights[l], PhongMaterials[m],
                                        position_, position_, PhongEyes[e],
                                        PhongNormals[n], in_shadow)]
  /\ UNCHANGED pureRest

NextPhong == PhongLightingCall

SpecPhong == InitPure /\ [][NextPhong]_vars

-----------------------------------------------------------------------------
(* The scenes and rays the hit-list operations are exercised on.           *)

MaxHits == 3

\* The distances pushed by the tests of src/src/scene.rs, and 0.
Distances == { R(-3), Zero, R(2), R(5), R(7) }

\* Free-standing nodes a pushed hit may refer to.
PushObjects == { 1, 2 }


\* create_test_scene: a unit sphere and a sphere scaled by 0.5
TestScene ==
  << with_material(NewNode("Sphere"),
                   [DefaultMaterial EXCEPT !.color = <<Rat(4, 5), One, Rat(3, 5)>>,
                                           !.diffuse = Rat(7, 10),
                                           !.specular = Rat(1, 5)]),
     with_transform(NewNode("Sphere"), scale(Half, Half, Half)) >>

Scenes ==
  << <<>>,
     TestScene,
     << NewNode("Sphere"),
        with_transform(NewNode("Sphere"), translate(Zero, Zero, R(10))) >>,
     << with_transform(NewNode("Plane"), translate(Zero, R(-1), Zero)),
        with_transform(NewNode("Sphere"), scale(Half, Half, Half)),
        NewNode("Sphere") >> >>

Rays ==
  << Ray(point(Zero, Zero, R(-5)), vec3(Zero, Zero, One)),
     Ray(point(Zero, Zero, R(-5)), vec3(Zero, One, Zero)),
     Ray(point(Zero, Zero, Zero), vec3(Zero, Zero, One)),
     Ray(point(Zero, One, Zero), vec3(Zero, R(-1), Zero)) >>

\* Lists handed to HitList::append: what a node's intersect returns.
OtherLists ==
  { << Hit(1, R(-3)), Hit(1, R(2)) >>,
    << Hit(2, R(5)), Hit(2, R(7)) >>,
    << Hit(2, R(2)) >> }

InitHitList == HitListIdle /\ GlassIdle /\ NodeIdle /\ SceneIdle /\ TraceIdle /\ OthersIdle

\* HitList::new
New ==
  /\ UNCHANGED hitRest
  /\ hits # <<>>
  /\ hits' = <<>>
  /\ call' = Call("new", 0, 0)
  /\ closest' = None

\* HitList::push
Push ==
  /\ UNCHANGED hitRest
  /\ Len(hits) < MaxHits
  /\ \E object \in PushObjects, distance \in Distances :
       hits' = push(hits, object, distance)
  /\ call' = Call("push", 0, 0)
  /\ closest' = None

\* HitList::append
AppendList ==
  /\ UNCHANGED hitRest
  /\ Len(hits) < MaxHits
  /\ \E other \in OtherLists : hits' = append(hits, other)
  /\ call' = Call("append", 0, 0)
  /\ closest' = None

\* HitList::closest_hit
ClosestHit ==
  /\ UNCHANGED hitRest
  /\ call.op # "closest_hit"
  /\ closest' = closest_hit(hits)
  /\ call' = Call("closest_hit", call.scene, call.ray)
  /\ UNCHANGED hits

\* Scene::intersect on one of the scenes, for one of the rays: the list it
\* returns is a new one.
Intersect ==
  /\ UNCHANGED hitRest
  /\ call.op = "new"
  /\ \E scene \in 1..Len(Scenes), r \in 1..Len(Rays) :
       /\ \A k \in 1..Len(Scenes[scene]) :
            Scenes[scene][k].object = "Sphere" =>
              SphereExact(MatRay(Scenes[scene][k].inverse_transform, Rays[r]))
       /\ hits' = SceneIntersect(Scenes[scene], Rays[r])
       /\ call' = Call("intersect", scene, r)
  /\ closest' = None

NextHitList == New \/ Push \/ AppendList \/ ClosestHit \/ Intersect

SpecHitList == InitHitList /\ [][NextHitList]_vars

-----------------------------------------------------------------------------
(* Properties of HitList and Scene::intersect.                             *)

DistancesOf(list) == [k \in 1..Len(list) |-> list[k].distance]

Ascending(list) ==
  \A i, j \in 1..Len(list) : i < j => RLe(list[i].distance, list[j].distance)

\* How many hits of `list` are the hit h.
Count(list, h) == Cardinality({k \in 1..Len(list) : list[k] = h})

RECURSIVE SumOfLengths(_, _)
SumOfLengths(lists, k) ==
  IF k = 0 THEN 0 ELSE Len(lists[k]) + SumOfLengths(lists, k - 1)

\* What each node of the scene of the last Scene::intersect call reports for
\* the ray of that call: Shape::intersect on the ray in object space.
NodeDistances ==
  [k \in 1..Len(Scenes[call.scene]) |->
     ShapeIntersect(Scenes[call.scene][k].object,
                    MatRay(Scenes[call.scene][k].inverse_transform, Rays[call.ray]))]

\* C4: closest_hit returns the hit with the smallest strictly positive
\* distance, whatever the order of the hits, ignores every hit with a
\* distance <= 0, and returns None exactly when no hit has a positive distance.
C4_ClosestHitIsSmallestPositive ==
  call.op = "closest_hit" =>
    /\ closest.some <=> \E k \in 1..Len(hits) : RLt(Zero, hits[k].distance)
    /\ closest.some =>
         /\ RLt(Zero, closest.distance)
         /\ \E k \in 1..Len(hits) : hits[k] = Hit(closest.object, closest.distance)
         /\ \A k \in 1..Len(hits) :
              RLt(Zero, hits[k].distance) => RLe(closest.distance, hits[k].distance)

\* C4 witness: the distances 5, 7, -3, 2 were pushed and closest_hit gave 2.
C4_Witness ==
  /\ call.op = "closest_hit"
  /\ DistancesOf(hits) = <<R(5), R(7), R(-3), R(2)>>
  /\ closest.some
  /\ closest.distance = R(2)

\* C5: Scene::intersect returns every hit of every node, each tagged with its
\* node, and nothing else, in non-decreasing order of distance; the test
\* scene and the ray (0,0,-5) -> (0,0,1) give the distances 4, 4.5, 5.5, 6.
C5_IntersectReturnsAllHitsSorted ==
  call.op = "intersect" =>
    /\ Len(hits) = SumOfLengths(NodeDistances, Len(NodeDistances))
    /\ \A k \in 1..Len(hits) : hits[k].object \in 1..Len(NodeDistances)
    /\ \A n \in 1..Len(NodeDistances) :
         \A d \in {NodeDistances[n][i] : i \in 1..Len(NodeDistances[n])} :
           Count(hits, Hit(n, d))
             = Cardinality({i \in 1..Len(NodeDistances[n]) : NodeDistances[n][i] = d})
    /\ Ascending(hits)
    /\ (call.scene = 2 /\ call.ray = 1) =>
         DistancesOf(hits) = <<R(4), Rat(9, 2), Rat(11, 2), R(6)>>

\* C5 witness: the test scene was intersected with the ray of the test and
\* the hits of both spheres came back.
C5_Witness ==
  /\ call.op = "intersect"
  /\ call.scene = 2
  /\ call.ray = 1
  /\ Len(hits) = 4
  /\ hits[2].object = 2

\* C6 as claimed: after any sequence of push and append the hits are stored
\* in ascending order of distance.
C6_PushAppendKeepAscending ==
  call.op \in {"push", "append"} => Ascending(hits)

\* C6 as amended: the HitList returned by Scene::intersect is in ascending
\* order of distance (push and append add at the end and do not reorder).
C6_IntersectResultAscending ==
  call.op = "intersect" => Ascending(hits)

\* C6 witness: Scene::intersect returned hits that its nodes reported out of
\* order.
C6_Witness ==
  /\ call.op = "intersect"
  /\ Len(hits) >= 4
  /\ ~Ascending(AppendAll(Scenes[call.scene], Len(Scenes[call.scene]), Rays[call.ray]))

-----------------------------------------------------------------------------
(* Properties of compute_refractivity.                                     *)

\* The container stack as specified, after the first k hits: a hit whose
\* object is on the stack removes that object, any other hit pushes its
\* object.
RECURSIVE StackAfter(_, _)
StackAfter(list, k) ==
  IF k = 0 THEN <<>>
  ELSE CHOOSE r \in
         { IF \E j \in 1..Len(before) : before[j] = list[k].object
           THEN SelectSeq(before, LAMBDA o : o # list[k].object)
           ELSE Append(before, list[k].object)
           : before \in {StackAfter(list, k - 1)} } : TRUE

TopIndex(objects) ==
  IF objects = <<>> THEN One
  ELSE GlassSpheres[objects[Len(objects)]].material.refractivity

\* C3: for the focal hit, n1 is the refractive index of the top of the stack
\* of objects the ray is inside before the hit and n2 the one after it, 1.0
\* for an empty stack; the nested spheres of the test give [1.0,1.5],
\* [1.5,2.0], [2.0,2.5], [2.5,2.5], [2.5,1.5], [1.5,1.0].
C3_RefractivityFollowsContainerStack ==
  focal > 0 =>
    refractivity = << TopIndex(StackAfter(glass_hits, focal - 1)),
                      TopIndex(StackAfter(glass_hits, focal)) >>

-----------------------------------------------------------------------------
(* Properties of Matrix4x4::invert and SceneNode.                          *)

\* C7: invert fails with an error whenever the determinant is within
\* epsilon (1e-5) of zero, not only when it is exactly zero, and returns Ok
\* otherwise.
C7_InvertFailsWithinEpsilonOfZero ==
  node_call = "with_transform" =>
    (inverted.ok <=> ~IsApprox(Determinant(node.transform), Zero))

\* C8: a node given a singular transform does not carry the identity, or any
\* other matrix, as its inverse transform.
C8_SingularTransformIsNotMasked ==
  Determinant(node.transform) = Zero => Len(node.inverse_transform) # 16

\* C9: for a node built by any sequence of new, with_transform and
\* with_material whose transform is invertible, a point sent through
\* object_to_world and back through world_to_object comes back unchanged
\* (within epsilon).
C9_RoundTrip ==
  (node_call = "round_trip" /\ Determinant(node.transform) # Zero) =>
    VecEq(probe.back, probe.sent)

\* C9 witness: a node that was transformed away from the identity, and given
\* a material, sent a point other than the origin through and back.
C9_Witness ==
  /\ node_call = "round_trip"
  /\ Determinant(node.transform) # Zero
  /\ node.transform # identity
  /\ node.material # DefaultMaterial
  /\ probe.sent = point(One, Two, R(3))
  /\ object_to_world(node, probe.sent) # probe.sent

-----------------------------------------------------------------------------
(* Properties of Scene::apply_lighting and Scene::is_shadowed.             *)

\* The surface colour with shadows decided light by light: the ambient
\* colour plus, for each of the first k lights, its phong lighting, in shadow
\* exactly when that light is occluded from the over point.
RECURSIVE PerLightSurface(_, _, _)
PerLightSurface(s, lighting_data, k) ==
  IF k = 0 THEN s.ambient_color
  ELSE CAdd(PerLightSurface(s, lighting_data, k - 1),
            phong_lighting(s.lights[k], s.nodes[lighting_data.object].material,
                           lighting_data.over_position,
                           lighting_data.object_position,
                           lighting_data.eye, lighting_data.normal,
                           LightOccluded(s.nodes, s.lights[k],
                                         lighting_data.over_position)))

\* C10: shadows are decided per light: a light's diffuse and specular terms
\* are dropped exactly when the ray from the over point towards that light
\* has a closest positive hit nearer than the light; an occluder of one
\* light does not take away the contribution of another light.
C10_ShadowsDecidedPerLight ==
  (world_call.op = "trace" /\ TracedHit(world, LitRays[world_call.ray]).some) =>
    ColorEq(world_result.color,
            PerLightSurface(world, TracedData(world, LitRays[world_call.ray]),
                            Len(world.lights)))

-----------------------------------------------------------------------------
(* Properties of the recursion of Scene::trace.                            *)

\* Every activation of trace_inner is one deeper than its caller, none is
\* deeper than MAX_DEPTH, and one at MAX_DEPTH only returns: it is never in
\* apply_lighting, with an intersection made or a call of its own pending.
DepthBound ==
  \A k \in 1..Len(stack) :
    /\ stack[k].depth = k - 1
    /\ stack[k].depth <= MAX_DEPTH
    /\ stack[k].depth >= MAX_DEPTH => stack[k].pc = "trace_inner"

\* C1: Scene::trace terminates for every scene and ray: every recursive
\* trace_inner call is made at depth + 1, a call at depth >= MAX_DEPTH returns
\* without intersecting or recursing, no call runs deeper than MAX_DEPTH,
\* and every trace that was started comes to its end.
C1_TraceTerminates ==
  /\ []DepthBound
  /\ (stack # <<>>) ~> (stack = <<>>)

\* C1 witness: mirrors facing each other, or nested reflective glass, took
\* the recursion down to a trace_inner call at MAX_DEPTH.
C1_Witness ==
  /\ Len(stack) = MAX_DEPTH + 1
  /\ stack[Len(stack)].depth = MAX_DEPTH
  /\ \A k \in 1..MAX_DEPTH :
       stack[k].pc \in {"reflected_color:trace_inner", "refracted_color:trace_inner"}

\* C2: a trace_inner reached at depth >= MAX_DEPTH contributes black to the
\* reflected or refracted term of its caller, whatever the ambient colour
\* of the scene.
C2_DepthExhaustionYieldsBlack ==
  (returned.some /\ returned.depth >= MAX_DEPTH) => returned.color = BLACK

-----------------------------------------------------------------------------
(* reflected_color and refracted_color.                                    *)

\* The surface, and the sin_t2 of the refraction, of the call being made
ShadeSurface == ShadeSurfaces[shade_call.surface]

ShadeSinT2 ==
  LET ld == ShadeSurface.lighting_data
      n_ratio == RDiv(ld.refractivity[1], ld.refractivity[2])
      cos_i == dot(ld.eye, ld.normal)
  IN  RMul(RMul(n_ratio, n_ratio), RSub(One, RMul(cos_i, cos_i)))

ReturnsBlackUntraced ==
  /\ shade_result.color = BLACK
  /\ shade_result.calls = <<>>

\* One ray traced from the origin at depth+1, its colour scaled by the factor
TracesOneRay(origin, factor) ==
  /\ Len(shade_result.calls) = 1
  /\ shade_result.calls[1].ray.origin = origin
  /\ shade_result.calls[1].depth = shade_call.depth + 1
  /\ shade_result.color = CScale(shade_call.traced, factor)

\* C11 as stated: reflected_color returns exactly BLACK and traces nothing
\* when the reflectivity is 0; for every other reflectivity it traces one ray
\* from the over point along the reflection direction at depth+1 and scales
\* the result by the reflectivity.
C11_ReflectedBlackOnlyAtZero ==
  shade_call.op = "reflected_color" =>
    IF ShadeSurface.material.reflectivity = Zero
    THEN ReturnsBlackUntraced
    ELSE /\ TracesOneRay(ShadeSurface.lighting_data.over_position,
                         ShadeSurface.material.reflectivity)
         /\ shade_result.calls[1].ray.direction =
              ShadeSurface.lighting_data.reflect_direction

\* C11 amended: reflected_color returns exactly BLACK and traces nothing when
\* the reflectivity is within EPSILON of 0; otherwise it traces one ray from
\* the over point along the reflection direction at depth+1 and scales the
\* result by the reflectivity.
C11_ReflectedBlackWithinEpsilon ==
  shade_call.op = "reflected_color" =>
    IF RLt(RAbs(ShadeSurface.material.reflectivity), EPSILON)
    THEN ReturnsBlackUntraced
    ELSE /\ TracesOneRay(ShadeSurface.lighting_data.over_position,
                         ShadeSurface.material.reflectivity)
         /\ shade_result.calls[1].ray.direction =
              ShadeSurface.lighting_data.reflect_direction

C11_Witness ==
  /\ shade_call.op = "reflected_color"
  /\ ShadeSurface.material.reflectivity = Half
  /\ shade_call.traced = WHITE
  /\ Len(shade_result.calls) = 1
  /\ shade_result.color = rgb(Half, Half, Half)

\* C12: refracted_color returns BLACK and traces nothing whenever the
\* transparency is approximately 0 or depth >= MAX_DEPTH; otherwise, when the
\* reflection is not total (sin_t2 below 1), it traces exactly one ray from
\* the under point at depth+1 and scales the result by the transparency.
C12_RefractedBlackOrOneRay ==
  shade_call.op = "refracted_color" =>
    IF \/ RLt(RAbs(ShadeSurface.material.transparency), EPSILON)
       \/ shade_call.depth >= MAX_DEPTH
    THEN ReturnsBlackUntraced
    ELSE RLt(ShadeSinT2, One) =>
           TracesOneRay(ShadeSurface.lighting_data.under_position,
                        ShadeSurface.material.transparency)

C12_Witness ==
  /\ shade_call.op = "refracted_color"
  /\ ShadeSurface.material.transparency = One
  /\ shade_call.depth = MAX_DEPTH
  /\ shade_call.traced = WHITE
  /\ ReturnsBlackUntraced

\* C13: whenever sin_t2 = (n1/n2)^2 * (1 - cos_i^2) is greater than or equal
\* to 1, the value 1 included, the refracted contribution is BLACK and no
\* refracted ray is traced.
C13_TotalInternalReflectionFromOne ==
  (shade_call.op = "refracted_color" /\ RLe(One, ShadeSinT2)) =>
    ReturnsBlackUntraced

-----------------------------------------------------------------------------
(* Scene::trace on a ray that meets nothing.                               *)

\* The distances every node of the scene reports for the ray of the last
\* Scene::trace call
TracedDistances ==
  [k \in 1..Len(world.nodes) |->
     ShapeIntersect(world.nodes[k].object,
                    MatRay(world.nodes[k].inverse_transform, LitRays[world_call.ray]))]

NoPositiveHit ==
  \A k \in 1..Len(world.nodes) :
    \A j \in 1..Len(TracedDistances[k]) : RLe(TracedDistances[k][j], Zero)

\* C14: when the ray has no hit with a positive distance in the scene (an
\* empty scene included), Scene::trace returns the scene's ambient colour
\* unchanged: no light, shadow, reflection or refraction adds to it.
C14_MissReturnsAmbientColor ==
  (world_call.op = "trace" /\ NoPositiveHit) =>
    world_result.color = world.ambient_color

\* The ray (0,0,1.5) -> (0,0,1) leaves the unit sphere behind it (hits at
\* -2.5 and -0.5) in a scene with a red background and a light.
C14_Witness ==
  /\ world_call.op = "trace"
  /\ world_call.ray = 1
  /\ world.nodes = <<NewNode("Sphere")>>
  /\ world.lights # <<>>
  /\ world.ambient_color = RED
  /\ NoPositiveHit
  /\ world_result.color = RED

-----------------------------------------------------------------------------
(* Camera::render.                                                         *)

\* The cells the loop of Camera::render has passed
Passed(x, y) ==
  \/ cursor.state = "done"
  \/ cursor.state = "loop" /\ (y < cursor.y \/ (y = cursor.y /\ x < cursor.x))

\* C15: Camera::render returns a canvas of exactly width x height cells and
\* writes each cell (x, y), 0 <= x < width and 0 <= y < height, exactly once,
\* with the colour Scene::trace(ray_for_pixel(x, y)); no cell is skipped,
\* written twice, or written at an index out of range.
C15_RenderWritesEachCellOnce ==
  /\ cursor.state # "panic"
  /\ cursor.state \in {"loop", "done"} =>
       /\ canvas.width = camera.width /\ canvas.height = camera.height
       /\ Len(canvas.pixels) = camera.width * camera.height
       /\ \A x \in 0..(camera.width - 1), y \in 0..(camera.height - 1) :
            IF Passed(x, y)
            THEN /\ written[x + y * camera.width + 1] = 1
                 /\ canvas.pixels[x + y * camera.width + 1] =
                      TraceOpaque(render_scene, ray_for_pixel(camera, x, y))
            ELSE written[x + y * camera.width + 1] = 0

\* The 2 x 2 render of the lit floor is done: the upper row shows the
\* background, the lower row the floor, brighter under the light.
C15_Witness ==
  /\ cursor.state = "done"
  /\ camera.width = 2 /\ camera.height = 2
  /\ render_scene.nodes # <<>> /\ render_scene.lights # <<>>
  /\ canvas.pixels[1] = render_scene.ambient_color
  /\ canvas.pixels[2] = render_scene.ambient_color
  /\ canvas.pixels[3] # canvas.pixels[4]
  /\ canvas.pixels[3] # canvas.pixels[1]

\* The pixels of the canvas agree with those of the canvas the sequential
\* loop returns, wherever the workers have written
WrittenAsSequential ==
  \E sequential \in {render(camera, render_scene)} :
    /\ Len(canvas.pixels) = Len(sequential.pixels)
    /\ \A i \in 1..Len(canvas.pixels) :
         /\ written[i] <= 1
         /\ written[i] = 1 => canvas.pixels[i] = sequential.pixels[i]
         /\ cursor.state = "done" => written[i] = 1

\* C16: the pixels are independent. Whatever the order in which the workers
\* take the cells of their rows and however their turns interleave, every
\* cell is written once with the colour the sequential loop gives it, the
\* final canvas is the canvas of the sequential row-major loop, and the scene
\* and the camera are not modified on the way.
C16_AnyOrderSameCanvas ==
  /\ [](cursor.state \in {"sharded", "done"} => WrittenAsSequential)
  /\ [][cursor.state \in {"sharded", "done"} =>
          (render_scene' = render_scene /\ camera' = camera)]_vars

\* The 2 x 2 render of the lit floor with its lower row written before its
\* upper row
C16_Witness ==
  /\ cursor.state = "sharded"
  /\ camera.width = 2 /\ camera.height = 2
  /\ render_scene.nodes # <<>> /\ render_scene.lights # <<>>
  /\ written = <<0, 0, 1, 1>>
  /\ canvas.pixels[3] # canvas.pixels[4]

-----------------------------------------------------------------------------
(* Shapes: degenerate rays, normals and the roots of Sphere::intersect.    *)

\* C17: a degenerate ray, of a direction of length zero or with NaN
\* components, is treated as meeting nothing: Shape::intersect of Sphere and
\* of Plane returns no distances for it, so Scene::intersect receives no NaN
\* distance and its sort by distance does not panic.
C17_DegenerateRaysMeetNothing ==
  /\ shape_call.op = "degenerate_intersect" => shape_result.distances = <<>>
  /\ shape_call.op = "degenerate_scene_intersect" =>
       /\ ~shape_result.panic
       /\ \A k \in 1..Len(shape_result.distances) : ~IsNaN(shape_result.distances[k])

\* The node and the point of the last normal_at call
NormalNode == ShapeNodes[shape_call.subject]
NormalPoint == NormalPoints[shape_call.input]

\* transpose(inverse(T)) * v with w zeroed: the local normal v mapped to
\* world space, before it is normalized
ToWorldNormal(self, v) ==
  [MatVec(transpose(invert(self.transform).value), v) EXCEPT ![4] = Zero]

\* The local normal of the unit sphere at the world point: the point taken
\* to object space once, minus the origin
SphereLocalNormal(self, world_point) ==
  VSub(MatVec(invert(self.transform).value, world_point), point(Zero, Zero, Zero))

\* C18: for a sphere node with an invertible transform T, normal_at applies
\* the world-to-object transform exactly once: it equals
\* normalize(zero_w(transpose(inverse(T)) * (inverse(T) * world_point - origin))),
\* and for an untransformed sphere the normal at a surface point is that
\* point as a vector.
C18_SphereNormalTransformsOnce ==
  (/\ shape_call.op = "normal_at"
   /\ NormalNode.object = "Sphere"
   /\ CanNormalize(ToWorldNormal(NormalNode, SphereLocalNormal(NormalNode, NormalPoint)))) =>
    /\ VecEq(shape_result.normal,
             normalize(ToWorldNormal(NormalNode,
                                     SphereLocalNormal(NormalNode, NormalPoint))))
    /\ (NormalNode.transform = identity /\ dot(NormalPoint, NormalPoint) = Two) =>
         shape_result.normal = [NormalPoint EXCEPT ![4] = Zero]

\* C19: the local normal of a plane is the same at every point, and the
\* normal its node reports is that local normal mapped through the
\* inverse-transpose of the node's transform, w zeroed, normalized: a plane
\* turned by a rotation reports the turned normal.
C19_PlaneNormalFollowsTransform ==
  (shape_call.op = "normal_at" /\ NormalNode.object = "Plane") =>
    VecEq(shape_result.normal,
          normalize(ToWorldNormal(NormalNode, vec3(Zero, One, Zero))))

\* The quadratic of the sphere for the ray of the last intersect call
SphereRay == ObjectRays[shape_call.input]
QuadraticA == dot(SphereRay.direction, SphereRay.direction)
QuadraticB == RMul(Two, dot(VSub(SphereRay.origin, point(Zero, Zero, Zero)), SphereRay.direction))
QuadraticC ==
  RSub(dot(VSub(SphereRay.origin, point(Zero, Zero, Zero)),
           VSub(SphereRay.origin, point(Zero, Zero, Zero))), One)
QuadraticAt(t) == RAdd(RAdd(RMul(QuadraticA, RMul(t, t)), RMul(QuadraticB, t)), QuadraticC)

\* C20: Sphere::intersect returns no distances when the discriminant
\* b^2 - 4ac is negative and otherwise exactly two distances in
\* non-decreasing order, the roots of the quadratic, whatever their sign;
\* the two are equal exactly when the ray is tangent (discriminant 0). The
\* rays of the tests give {4,6}, {5,5}, {}, {-1,1} and {-6,-4}.
C20_SphereIntersectReturnsBothRoots ==
  (shape_call.op = "intersect" /\ shape_call.subject = "Sphere") =>
    LET discriminant == RSub(RMul(QuadraticB, QuadraticB),
                             RMul(RMul(Four, QuadraticA), QuadraticC))
        t == shape_result.distances
    IN  /\ IF RLt(discriminant, Zero)
           THEN t = <<>>
           ELSE /\ Len(t) = 2
                /\ RLe(t[1], t[2])
                /\ QuadraticAt(t[1]) = Zero /\ QuadraticAt(t[2]) = Zero
                /\ t[1] = t[2] <=> discriminant = Zero
        /\ shape_call.input = 1 => t = <<Four, R(6)>>
        /\ shape_call.input = 2 => t = <<R(5), R(5)>>
        /\ shape_call.input = 3 => t = <<>>
        /\ shape_call.input = 4 => t = <<R(-1), One>>
        /\ shape_call.input = 5 => t = <<R(-6), R(-4)>>

\* The ray that starts behind the sphere: both roots are negative and both
\* are returned.
C20_Witness ==
  /\ shape_call.op = "intersect" /\ shape_call.subject = "Sphere"
  /\ shape_call.input = 5
  /\ shape_result.distances = <<R(-6), R(-4)>>

-----------------------------------------------------------------------------
(* C21. Plane::intersect returns no distance when |direction.y| is below   *)
(* 0.00001 and otherwise exactly one distance t with                       *)
(* origin.y + t * direction.y = 0, which may be negative; the rays from    *)
(* (0,1,0) downwards and from (0,-1,0) upwards each give the distance 1.   *)

PlaneRay == PlaneRays[shape_call.input]

C21_PlaneIntersectOneDistanceOrNone ==
  (shape_call.op = "intersect" /\ shape_call.subject = "Plane") =>
    /\ ~shape_result.panic
    /\ IF RLt(RAbs(PlaneRay.direction[2]), Rat(1, 100000))
       THEN shape_result.distances = <<>>
       ELSE /\ Len(shape_result.distances) = 1
            /\ RAdd(PlaneRay.origin[2],
                    RMul(shape_result.distances[1], PlaneRay.direction[2])) = Zero
    /\ (PlaneRay = Ray(point(Zero, One, Zero), vec3(Zero, R(-1), Zero)))
         => shape_result.distances = <<One>>
    /\ (PlaneRay = Ray(point(Zero, R(-1), Zero), vec3(Zero, One, Zero)))
         => shape_result.distances = <<One>>

\* The plane lies behind the ray from (0,-3,0) downwards: one distance, -3.
C21_Witness ==
  /\ shape_call.op = "intersect" /\ shape_call.subject = "Plane"
  /\ PlaneRay = Ray(point(Zero, R(-3), Zero), vec3(Zero, R(-1), Zero))
  /\ shape_result.distances = <<R(-3)>>

-----------------------------------------------------------------------------
(* C22. phong_lighting always includes the ambient term (texture colour x  *)
(* light intensity x material.ambient) and returns it alone when in_shadow *)
(* is true or the light is on the far side of the surface; the diffuse     *)
(* term is added when light_dir . normal >= 0 and the specular term when   *)
(* also reflect . eye >= 0. The default material under a white light gives *)
(* (1.9, 1.9, 1.9) head-on and (0.1, 0.1, 0.1) with the light behind the   *)
(* surface or in shadow.                                                   *)

PhongLightDir == normalize(VSub(pure_call.light.position, pure_call.world_position))
PhongLightDotNormal == dot(PhongLightDir, pure_call.normal)

\* reflect . eye, with reflect = -(l - 2 (l . n) n)
PhongReflectDotEye ==
  RSub(RMul(RMul(Two, PhongLightDotNormal), dot(pure_call.normal, pure_call.eye)),
       dot(PhongLightDir, pure_call.eye))

PhongAmbient(i) ==
  RMul(RMul(pure_call.material.color[i], pure_call.light.intensity[i]),
       pure_call.material.ambient)

PhongDiffuse(i) ==
  RMul(RMul(RMul(pure_call.material.color[i], pure_call.light.intensity[i]),
            pure_call.material.diffuse), PhongLightDotNormal)

PhongSpecular(i) ==
  RMul(RMul(pure_call.light.intensity[i], pure_call.material.specular),
       Powf(PhongReflectDotEye, pure_call.material.shininess))

C22_PhongAmbientAloneInShadowOrBehind ==
  pure_call.op = "phong_lighting" =>
    /\ \A i \in 1..3 :
         pure_result.color[i] =
           IF pure_call.in_shadow \/ RLt(PhongLightDotNormal, Zero)
           THEN PhongAmbient(i)
           ELSE IF RLt(PhongReflectDotEye, Zero)
                THEN RAdd(PhongAmbient(i), PhongDiffuse(i))
                ELSE RAdd(RAdd(PhongAmbient(i), PhongDiffuse(i)), PhongSpecular(i))
    /\ ( /\ pure_call.material = DefaultMaterial /\ pure_call.light.intensity = WHITE
         /\ pure_call.eye = vec3(Zero, Zero, R(-1))
         /\ pure_call.normal = vec3(Zero, Zero, R(-1)) )
       => pure_result.color =
            IF pure_call.in_shadow \/ pure_call.light.position[3] = R(10)
            THEN rgb(Rat(1, 10), Rat(1, 10), Rat(1, 10))
            ELSE IF pure_call.light.position = vec3(Zero, Zero, R(-10))
                 THEN rgb(Rat(19, 10), Rat(19, 10), Rat(19, 10))
                 ELSE pure_result.color

\* In shadow, a light that would add both the diffuse and the specular term
\* leaves the ambient term alone.
C22_Witness ==
  /\ pure_call.op = "phong_lighting" /\ pure_call.in_shadow
  /\ pure_call.material = DefaultMaterial
  /\ pure_call.light = PointLight(vec3(Zero, Zero, R(-10)), WHITE)
  /\ pure_call.eye = vec3(Zero, Zero, R(-1))
  /\ pure_call.normal = vec3(Zero, Zero, R(-1))
  /\ pure_result.color = rgb(Rat(1, 10), Rat(1, 10), Rat(1, 10))

-----------------------------------------------------------------------------
(* C23. Chained with_transform calls accumulate:                           *)
(* node.with_transform(a).with_transform(b) is the node whose transform is *)
(* a * b (and whose inverse is that of a * b); the second call does not    *)
(* discard the first transform.                                            *)

\* a * b * ... for the transforms given to the chain, in the order given
RECURSIVE ChainProduct(_, _)
ChainProduct(transforms, k) ==
  IF k = 0 THEN identity
  ELSE IF k = 1 THEN ChainTransforms[transforms[1]]
  ELSE MatMul(ChainProduct(transforms, k - 1), ChainTransforms[transforms[k]])

C23_ChainedTransformsAccumulate ==
  pure_call.op = "with_transform" =>
    pure_result.node =
      with_transform(NewNode(pure_call.shape),
                     ChainProduct(pure_call.transforms, Len(pure_call.transforms)))

-----------------------------------------------------------------------------
(* C24. For matrices a, b, c and a tuple p, (c * b * a) * p is             *)
(* c * (b * (a * p)): the transform written rightmost is applied first.    *)
(* The matrix product is associative and has the identity as its unit      *)
(* (a * I = a, I * p = p); it is not commutative in general (the witness). *)

C24_ChainedProductAppliesRightmostFirst ==
  pure_result.op = "mul" =>
    /\ pure_result.chained = pure_result.in_sequence
    /\ pure_result.cb_a = pure_result.c_ba
    /\ pure_result.a_identity = Matrices[pure_call.a]
    /\ pure_result.identity_p = Tuples[pure_call.p]

\* The chain of chained_transformations_are_applied_in_reverse_order,
\* translate * scale * rotate_x, takes (1, 0, 1) to (15, 0, 7); the scale
\* and the translation do not commute.
C24_Witness ==
  /\ pure_call = [op |-> "mul", a |-> 1, b |-> 2, c |-> 3, p |-> 1]
  /\ pure_result.op = "mul"
  /\ pure_result.chained = point(R(15), Zero, R(7))
  /\ pure_result.cb # MatMul(Matrices[2], Matrices[3])

-----------------------------------------------------------------------------
(* C25. LightingData::calculate sets inside and negates the normal exactly *)
(* when the geometric normal at the hit point has a negative dot product   *)
(* with the eye vector; so normal . eye >= 0 in every LightingData, and    *)
(* inside is false for a ray that hits a sphere from outside and true for  *)
(* a ray that starts inside it.                                            *)

CalcNode == CalcNodes[pure_call.node]
CalcRay == CalcRays[pure_call.ray]
CalcData == pure_result.data

\* The geometric normal of the node at the hit point, before it is
\* normalized: the local normal through the inverse-transpose of the
\* transform
GeometricNormal ==
  ToWorldNormal(CalcNode,
                IF CalcNode.object = "Sphere"
                THEN SphereLocalNormal(CalcNode, CalcData.world_position)
                ELSE vec3(Zero, One, Zero))

\* The square of the distance of the ray's origin from the centre of the
\* sphere, in object space
CalcOriginFromCentre ==
  dot(VSub(MatVec(CalcNode.inverse_transform, CalcRay.origin), point(Zero, Zero, Zero)),
      VSub(MatVec(CalcNode.inverse_transform, CalcRay.origin), point(Zero, Zero, Zero)))

\* The hit of the call is the one closest_hit picks: the first along the ray
CalcHitIsClosest ==
  \E h \in {closest_hit(CalcHits(pure_call.node, pure_call.ray))} :
    h.some /\ h.distance = CalcData.distance

C25_InsideIffNormalAgainstEye ==
  pure_result.op = "calculate" =>
    /\ RLe(Zero, dot(CalcData.normal, CalcData.eye))
    /\ CalcData.eye = VNeg(CalcRay.direction)
    /\ CalcData.inside <=> RLt(dot(GeometricNormal, CalcData.eye), Zero)
    /\ CanNormalize(GeometricNormal) =>
         VecEq(CalcData.normal,
               IF CalcData.inside THEN VNeg(normalize(GeometricNormal))
               ELSE normalize(GeometricNormal))
    /\ (CalcNode.object = "Sphere" /\ CalcHitIsClosest) =>
         /\ RLt(One, CalcOriginFromCentre) => ~CalcData.inside
         /\ RLt(CalcOriginFromCentre, One) => CalcData.inside

-----------------------------------------------------------------------------
(* C26. In every LightingData over_position is world_position plus the     *)
(* offset along the normal stored in the same LightingData (the normal     *)
(* after the inside flip) and under_position is world_position minus it:   *)
(* the over point is on the side of the surface that faces the eye, also   *)
(* when the ray starts inside the object.                                  *)

C26_OverPointAlongShadingNormal ==
  pure_result.op = "calculate" =>
    /\ CalcData.over_position =
         VAdd(CalcData.world_position, VScale(CalcData.normal, SurfaceOffset))
    /\ CalcData.under_position =
         VSub(CalcData.world_position, VScale(CalcData.normal, SurfaceOffset))
    /\ RLe(Zero, dot(VSub(CalcData.over_position, CalcData.world_position), CalcData.eye))
    /\ RLe(dot(VSub(CalcData.under_position, CalcData.world_position), CalcData.eye), Zero)

-----------------------------------------------------------------------------
(* C27. Scene::apply_lighting returns                                      *)
(* surface + reflected * R + refracted * (1 - R), R being the Schlick      *)
(* reflectance (1 under total internal reflection when n1 > n2), exactly   *)
(* when the material has reflectivity > 0 and transparency > 0; otherwise  *)
(* it returns surface + reflected + refracted.                             *)

ApplyMaterial == ApplySurfaces[pure_call.surface].material
ApplyData == ApplySurfaces[pure_call.surface].lighting_data
ApplyN1 == ApplyData.refractivity[1]
ApplyN2 == ApplyData.refractivity[2]
ApplyCosI == dot(ApplyData.eye, ApplyData.normal)

\* sin^2 of the angle of the transmitted ray, by Snell's law
ApplySinT2 ==
  RMul(RDiv(RMul(ApplyN1, ApplyN1), RMul(ApplyN2, ApplyN2)),
       RSub(One, RMul(ApplyCosI, ApplyCosI)))

\* r0 + (1 - r0) (1 - cos)^5 with r0 = ((n1 - n2) / (n1 + n2))^2
SchlickOf(cos) ==
  LET r0 == RDiv(RMul(RSub(ApplyN1, ApplyN2), RSub(ApplyN1, ApplyN2)),
                 RMul(RAdd(ApplyN1, ApplyN2), RAdd(ApplyN1, ApplyN2)))
      c == RSub(One, cos)
  IN  RAdd(r0, RMul(RSub(One, r0), RMul(c, RMul(c, RMul(c, RMul(c, c))))))

Reflectance ==
  IF RLt(ApplyN2, ApplyN1)
  THEN (IF RLt(One, ApplySinT2) THEN One ELSE SchlickOf(RSqrt(RSub(One, ApplySinT2))))
  ELSE SchlickOf(ApplyCosI)

TakesBlend ==
  RLt(Zero, ApplyMaterial.reflectivity) /\ RLt(Zero, ApplyMaterial.transparency)

C27_BlendIffReflectiveAndTransparent ==
  pure_result.op = "apply_lighting" =>
    \A i \in 1..3 :
      pure_result.color[i] =
        IF TakesBlend
        THEN RAdd(RAdd(pure_call.direct[i],
                       RMul(pure_result.reflected.color[i], Reflectance)),
                  RMul(pure_result.refracted.color[i], RSub(One, Reflectance)))
        ELSE RAdd(RAdd(pure_call.direct[i], pure_result.reflected.color[i]),
                  pure_result.refracted.color[i])

\* Reflective glass met head on from outside (n1 = 1, n2 = 1.5, R = 1/25):
\* 0.1 + 0.5 * 1/25 + 0 * 24/25 in the first channel
C27_Witness ==
  /\ pure_result.op = "apply_lighting"
  /\ pure_call.surface = 4 /\ TakesBlend /\ Reflectance = Rat(1, 25)
  /\ pure_call.direct = rgb(Rat(1, 10), Rat(1, 5), Rat(3, 10))
  /\ pure_call.reflected = WHITE /\ pure_call.refracted = rgb(Zero, Half, One)
  /\ pure_result.color[1] = Rat(3, 25)

-----------------------------------------------------------------------------
(* C28. The combine step and the contribution functions agree on what is   *)
(* reflective and transparent: whenever apply_lighting takes the Schlick   *)
(* blend (reflectivity > 0 and transparency > 0), reflected_color and      *)
(* refracted_color have not returned black on their test of the            *)
(* coefficient against approximately zero.                                 *)

C28_BlendAgreesWithContributions ==
  (pure_result.op = "apply_lighting" /\ TakesBlend) =>
    /\ Len(pure_result.reflected.calls) = 1
    /\ \/ Len(pure_result.refracted.calls) = 1
       \/ pure_call.depth >= MAX_DEPTH
       \/ RLt(One, ApplySinT2)

-----------------------------------------------------------------------------
(* loader.rs: a PackedScene, read from a YAML file, built into a Scene.    *)

\* Option<PackedTuple>
NoTuple == [ok |-> FALSE, value |-> <<>>]
SomeTuple(x, y, z) == [ok |-> TRUE, value |-> <<x, y, z>>]

\* PackedLight::build
PackedLightBuild(self) ==
  LET position_ == self.position
      color == unwrap_or(self.color, <<One, One, One>>)
  IN  PointLight(vec3(position_[1], position_[2], position_[3]),
                 rgb(color[1], color[2], color[3]))

\* PackedObject::build, for an object without rotation or material: the
\* transform is the translation to its position times its scale.
PackedObjectBuild(self) ==
  LET positioned == IF self.position.ok
                    THEN MatMul(identity, translate(self.position.value[1],
                                                    self.position.value[2],
                                                    self.position.value[3]))
                    ELSE identity
      scaled == IF self.scale.ok
                THEN MatMul(positioned, scale(self.scale.value[1],
                                              self.scale.value[2],
                                              self.scale.value[3]))
                ELSE positioned
  IN  with_transform(with_material(NewNode(self.kind), DefaultMaterial), scaled)

\* The lights and the objects of the files read
PackedLights ==
  { [position |-> <<R(-10), R(10), R(-10)>>, color |-> NoTuple],
    [position |-> <<Zero, Zero, R(-10)>>, color |-> SomeTuple(One, Zero, Zero)],
    [position |-> <<Zero, R(5), Zero>>, color |-> NoTuple],
    [position |-> <<Zero, Zero, Zero>>, color |-> SomeTuple(One, One, One)] }

PackedObjects ==
  { [kind |-> "Sphere", position |-> NoTuple, scale |-> NoTuple],
    [kind |-> "Sphere", position |-> SomeTuple(Zero, Zero, R(3)),
     scale |-> SomeTuple(R(2), R(2), R(2))],
    [kind |-> "Plane", position |-> SomeTuple(Zero, R(-1), Zero), scale |-> NoTuple] }

PackedScenes ==
  { [lights |-> l, objects |-> o] :
      l \in UNION { [1..n -> PackedLights] : n \in 0..MaxLights },
      o \in UNION { [1..n -> PackedObjects] : n \in 0..MaxObjects } }

\* PackedScene::from_yaml_file has read the file
InitLoader ==
  /\ \E packed \in PackedScenes : pure_call = [op |-> "build", packed |-> packed]
  /\ pure_result = [op |-> "none"]
  /\ HitListIdle /\ GlassIdle /\ NodeIdle /\ SceneIdle /\ TraceIdle
  /\ ShadeIdle /\ ShapeIdle /\ RenderIdle

\* PackedScene::build: a new scene, every light added, then every object
PackedSceneBuild ==
  /\ pure_call.op = "build" /\ pure_result.op = "none"
  /\ \E packed \in {pure_call.packed} :
       pure_result' =
         [ op |-> "build",
           scene |-> [NewScene EXCEPT
                        !.lights = [i \in 1..Len(packed.lights) |->
                                      PackedLightBuild(packed.lights[i])],
                        !.nodes = [i \in 1..Len(packed.objects) |->
                                     PackedObjectBuild(packed.objects[i])]] ]
  /\ UNCHANGED pure_call
  /\ UNCHANGED pureRest

NextLoader == PackedSceneBuild

SpecLoader == InitLoader /\ [][NextLoader]_vars

\* The points is_shadowed and phong_lighting are given: over points of hits
SurfacePoints ==
  { point(Zero, Zero, Rat(-10001, 10000)), point(Zero, Rat(1, 10000), R(2)) }

\* C30: every light PackedScene::build places in the scene has a point for
\* its position (w = 1), so that light.position - surface_point, the vector
\* is_shadowed and phong_lighting take to the light, is a direction (w = 0).
C30_LoadedLightsArePoints ==
  pure_result.op = "build" =>
    \A i \in 1..Len(pure_result.scene.lights) :
      /\ pure_result.scene.lights[i].position[4] = One
      /\ \A p \in SurfacePoints :
           VSub(pure_result.scene.lights[i].position, p)[4] = Zero

-----------------------------------------------------------------------------
(* C29. The work of one Scene::trace is bounded by the depth limit alone:  *)
(* at most 2^MAX_DEPTH - 1 = 31 hits are shaded and at most                *)
(* 2^(MAX_DEPTH + 1) - 1 = 63 trace_inner calls are made, whatever the     *)
(* scene; a hit is shaded only by a trace_inner call at depth < MAX_DEPTH. *)

C29_WorkBoundedByDepth ==
  /\ work.shaded <= 2^MAX_DEPTH - 1
  /\ work.calls <= 2^(MAX_DEPTH + 1) - 1
  /\ work.shaded <= work.calls
  /\ \A k \in 1..Len(stack) :
       stack[k].pc # "trace_inner" => stack[k].depth < MAX_DEPTH

\* Reflective glass all the way down: every one of the 31 hits sends a
\* reflected and a refracted ray, and the trace ends after 63 calls.
C29_Witness ==
  /\ stack = <<>>
  /\ work = [calls |-> 63, shaded |-> 31]

=============================================================================
